---- MODULE Spec2Model ----
(***************************************************************************)
(* A model of the ratatui_tree crate (tree addressing, traversal, queries  *)
(* and viewport windowing) and of the selection handling of the rebased    *)
(* stack controller.                                                       *)
(*                                                                         *)
(* Option<T> is modelled as a sequence of length <= 1: None is <<>> and    *)
(* Some(x) is <<x>>.  A Rust tuple (a, b) is the TLA+ tuple <<a, b>>.      *)
(* A TreeIndex is a non-empty sequence of naturals.  A tree node is a      *)
(* record [name, height, children]; `name` plays the role of the label of  *)
(* the test trees (tests/test_view.rs) and is the node's pre-order number. *)
(***************************************************************************)
EXTENDS Integers, Sequences, FiniteSets, TLC

VARIABLES
    tree,       \* the Tree widget / the root: [children, scroll_padding]
    selected,   \* TreeState.selected : Option<TreeIndex>
    offset,     \* TreeState.offset
    op,         \* name of the operation performed last
    arg,        \* its arguments (and, for a state change, the state before)
    ret         \* its result

vars == <<tree, selected, offset, op, arg, ret>>

\* ------------------------------------------------------------------ bounds

\* Largest number of nodes below the root of an enumerated tree.
MaxNodes == 4
\* Largest depth of an enumerated tree (length of its longest address).
MaxDepth == 3
\* Offsets of enumerated addresses range over 0..MaxIndex.
MaxIndex == 3
\* Items are one line or MaxHeight lines tall.
MaxHeight == 2
\* Viewport heights range over 1..MaxCapacity.
MaxCapacity == 3
\* Scroll paddings range over 0..MaxPadding.
MaxPadding == 2
\* Lists of single-line items have up to MaxLines items.
MaxLines == 10
MaxCommits == 2
MaxFiles == 2

\* The levels of the tree the application renders: commits and their deltas.
StackDepth == 2

\* ------------------------------------------------------------------ Option

None == <<>>

Some(x) == <<x>>

Min(a, b) == IF a <= b THEN a ELSE b

\* usize::saturating_sub
saturating_sub(a, b) == IF a >= b THEN a - b ELSE 0

Reverse(s) == [i \in 1..Len(s) |-> s[Len(s) + 1 - i]]

\* ------------------------------------------------------------------ index.rs

new_at(index) == <<index>>

first(index) == index[1]

last(index) == index[Len(index)]

iter_rest(index) == Tail(index)

pushed(index, i) == Append(index, i)

\* TreeIndex::pop: the index afterwards and the popped offset.
pop(index) ==
    IF Len(index) > 1
    THEN <<SubSeq(index, 1, Len(index) - 1), Some(last(index))>>
    ELSE <<index, None>>

popped(index) == pop(index)[1]

is_root(index) == Len(index) = 1

\* Vec::resize that pads but never truncates.
resize_pad_only(v, n) ==
    [i \in 1..(IF Len(v) >= n THEN Len(v) ELSE n) |->
        IF i <= Len(v) THEN v[i] ELSE 0]

\* Vec::resize(n, 0)
resize(v, n) == [i \in 1..n |-> IF i <= Len(v) THEN v[i] ELSE 0]

spliced(index, place, i) == Append(resize(index, place), i)

floored(index, place) == resize(index, place + 1)

\* Lexicographic on the common part, but a proper prefix ordered last.
RECURSIVE cmp_prefix_last(_, _)
cmp_prefix_last(a, b) ==
    IF a = <<>> /\ b = <<>> THEN "Equal"
    ELSE IF a = <<>> THEN "Greater"
    ELSE IF b = <<>> THEN "Less"
    ELSE IF Head(a) < Head(b) THEN "Less"
    ELSE IF Head(a) > Head(b) THEN "Greater"
    ELSE cmp_prefix_last(Tail(a), Tail(b))

\* The derived Ord of TreeIndex(Vec<usize>): lexicographic, a proper prefix first.
RECURSIVE cmp(_, _)
cmp(a, b) ==
    IF a = <<>> /\ b = <<>> THEN "Equal"
    ELSE IF a = <<>> THEN "Less"
    ELSE IF b = <<>> THEN "Greater"
    ELSE IF Head(a) < Head(b) THEN "Less"
    ELSE IF Head(a) > Head(b) THEN "Greater"
    ELSE cmp(Tail(a), Tail(b))

\* ------------------------------------------------------------------ index2.rs

\* index2 TreeIndex::new
TreeIndex2_new(indices) == IF indices = <<>> THEN None ELSE Some(indices)

\* index2 TreeIndex::parent: len().checked_sub(1).map(|i| &self.0[..i])
TreeIndex2_parent(self) ==
    IF Len(self) >= 1 THEN Some(SubSeq(self, 1, Len(self) - 1)) ELSE None

\* index2 TreeIndex::rest: len().gt(&1).then(|| &self.0[1..])
TreeIndex2_rest(self) == IF Len(self) > 1 THEN Some(Tail(self)) ELSE None

\* ------------------------------------------------------------------ iter.rs

\* A traversal's state is its stack; the top of the stack is the last element.

TreeIter_new_from(root) == Reverse(root.children)

\* TreeIter::next with the children pushed first to last.
TreeIter_next_forward(stack) ==
    IF stack = <<>> THEN <<None, stack>>
    ELSE LET item == stack[Len(stack)]
         IN  <<Some(item),
               SubSeq(stack, 1, Len(stack) - 1) \o item.children>>

\* TreeIter::next with the children of the item pushed twice.
TreeIter_next_twice(stack) ==
    IF stack = <<>> THEN <<None, stack>>
    ELSE LET item == stack[Len(stack)]
         IN  <<Some(item),
               SubSeq(stack, 1, Len(stack) - 1) \o Reverse(item.children)
                   \o Reverse(item.children)>>

\* TreeIter::next: <<Option<item>, stack afterwards>>
TreeIter_next(stack) ==
    IF stack = <<>> THEN <<None, stack>>
    ELSE LET item == stack[Len(stack)]
         IN  <<Some(item),
               SubSeq(stack, 1, Len(stack) - 1) \o Reverse(item.children)>>

\* Children in the order TreeIterWithDepth pushes them: rev() with a depth.
with_depth_rev(depth, children) ==
    [k \in 1..Len(children) |-> <<depth, children[Len(children) + 1 - k]>>]

TreeIterWithDepth_new_from(root) == with_depth_rev(0, root.children)

\* TreeIterWithDepth::next with the children pushed at their parent's depth.
TreeIterWithDepth_next_same_depth(stack) ==
    IF stack = <<>> THEN <<None, stack>>
    ELSE LET top == stack[Len(stack)]
         IN  <<Some(top),
               SubSeq(stack, 1, Len(stack) - 1)
                   \o with_depth_rev(top[1], top[2].children)>>

\* TreeIterWithDepth::next: <<Option<(depth, item)>, stack afterwards>>
TreeIterWithDepth_next(stack) ==
    IF stack = <<>> THEN <<None, stack>>
    ELSE LET top == stack[Len(stack)]
         IN  <<Some(top),
               SubSeq(stack, 1, Len(stack) - 1)
                   \o with_depth_rev(top[1] + 1, top[2].children)>>

\* Iterator::collect of a TreeIterWithDepth
RECURSIVE TreeIterWithDepth_collect(_)
TreeIterWithDepth_collect(stack) ==
    LET r == TreeIterWithDepth_next(stack)
    IN  IF r[1] = None THEN <<>>
        ELSE <<r[1][1]>> \o TreeIterWithDepth_collect(r[2])

\* enumerate_rev without the .rev(): children pushed first to last.
enumerate_forward(index, children) ==
    [k \in 1..Len(children) |->
        <<IF index = None THEN new_at(k - 1) ELSE pushed(index[1], k - 1),
          children[k]>>]

\* Children in the order TreeIterWithIndex pushes them: enumerate().rev().
enumerate_rev(index, children) ==
    [k \in 1..Len(children) |->
        LET i == Len(children) - k
        IN  <<IF index = None THEN new_at(i) ELSE pushed(index[1], i),
              children[i + 1]>>]

TreeIterWithIndex_new_from(root) == enumerate_rev(None, root.children)

\* TreeIterWithIndex::next: <<Option<(index, item)>, stack afterwards>>
TreeIterWithIndex_next(stack) ==
    IF stack = <<>> THEN <<None, stack>>
    ELSE LET top == stack[Len(stack)]
         IN  <<Some(top),
               SubSeq(stack, 1, Len(stack) - 1)
                   \o enumerate_rev(Some(top[1]), top[2].children)>>

\* Iterator::collect of a TreeIter
RECURSIVE TreeIter_collect(_)
TreeIter_collect(stack) ==
    LET r == TreeIter_next(stack)
    IN  IF r[1] = None THEN <<>> ELSE <<r[1][1]>> \o TreeIter_collect(r[2])

\* Iterator::collect of a TreeIterWithIndex
RECURSIVE TreeIterWithIndex_collect(_)
TreeIterWithIndex_collect(stack) ==
    LET r == TreeIterWithIndex_next(stack)
    IN  IF r[1] = None THEN <<>>
        ELSE <<r[1][1]>> \o TreeIterWithIndex_collect(r[2])

\* The stack of a TreeIter once next() has returned None.
RECURSIVE TreeIter_exhaust(_)
TreeIter_exhaust(stack) ==
    LET r == TreeIter_next(stack)
    IN  IF r[1] = None THEN r[2] ELSE TreeIter_exhaust(r[2])

\* Iterator::nth of a TreeIter
RECURSIVE TreeIter_nth(_, _)
TreeIter_nth(stack, n) ==
    LET r == TreeIter_next(stack)
    IN  IF r[1] = None THEN None
        ELSE IF n = 0 THEN r[1]
        ELSE TreeIter_nth(r[2], n - 1)

\* nth counting the items from one.
RECURSIVE TreeIterWithIndex_nth_from_one(_, _)
TreeIterWithIndex_nth_from_one(stack, n) ==
    LET r == TreeIterWithIndex_next(stack)
    IN  IF r[1] = None THEN None
        ELSE IF n <= 1 THEN r[1]
        ELSE TreeIterWithIndex_nth_from_one(r[2], n - 1)

\* Iterator::nth of a TreeIterWithIndex
RECURSIVE TreeIterWithIndex_nth(_, _)
TreeIterWithIndex_nth(stack, n) ==
    LET r == TreeIterWithIndex_next(stack)
    IN  IF r[1] = None THEN None
        ELSE IF n = 0 THEN r[1]
        ELSE TreeIterWithIndex_nth(r[2], n - 1)

\* ------------------------------------------------------------------ view.rs

iter_children(self) == self.children

iter_descendants(self) == TreeIter_new_from(self)

iter_descendants_with_depth(self) == TreeIterWithDepth_new_from(self)

iter_descendants_with_index(self) == TreeIterWithIndex_new_from(self)

len_children(self) == Len(self.children)

is_empty(self) == Len(self.children) = 0

\* get_child giving the last child for an offset past the end.
get_child_clamped(self, index) ==
    IF Len(self.children) = 0 THEN None
    ELSE Some(self.children[Min(index, Len(self.children) - 1) + 1])

get_child(self, index) ==
    IF index < Len(self.children) THEN Some(self.children[index + 1]) ELSE None

\* The loop of get_descendant: cursor = cursor.get_child(*i)?
RECURSIVE get_descendant_loop(_, _)
get_descendant_loop(cursor, rest) ==
    IF rest = <<>> THEN Some(cursor)
    ELSE LET c == get_child(cursor, Head(rest))
         IN  IF c = None THEN None ELSE get_descendant_loop(c[1], Tail(rest))

get_descendant(self, index) ==
    LET c == get_child(self, first(index))
    IN  IF c = None THEN None ELSE get_descendant_loop(c[1], iter_rest(index))

get_descendant_infix(self, n) == TreeIter_nth(iter_descendants(self), n)

RECURSIVE len_descendants(_)
RECURSIVE len_descendants_sum(_)
len_descendants_sum(children) ==
    IF children = <<>> THEN 0
    ELSE 1 + len_descendants(Head(children)) + len_descendants_sum(Tail(children))

len_descendants(self) == len_descendants_sum(self.children)

find_index_of_offset(self, n) ==
    TreeIterWithIndex_nth(iter_descendants_with_index(self), n)

\* The closure stopping at the first address that is not Less, equal or not.
find_offset_closure_neighbour(i, index, n, item) ==
    IF cmp(i, index) = "Less" THEN None ELSE Some(Some(<<n, item>>))

\* The closure of find_offset_of_index: what find_map does with one item.
find_offset_closure(i, index, n, item) ==
    LET o == cmp(i, index)
    IN  IF o = "Less" THEN None
        ELSE IF o = "Equal" THEN Some(Some(<<n, item>>))
        ELSE Some(None)

\* enumerate().find_map(..) over the traversal with indices
RECURSIVE find_offset_find_map(_, _, _)
find_offset_find_map(stack, n, index) ==
    LET r == TreeIterWithIndex_next(stack)
    IN  IF r[1] = None THEN None
        ELSE LET f == find_offset_closure(r[1][1][1], index, n, r[1][1][2])
             IN  IF f = None THEN find_offset_find_map(r[2], n + 1, index)
                 ELSE f

\* .flatten() of Option<Option<T>>
flatten(o) == IF o = None THEN None ELSE o[1]

find_offset_of_index(self, index) ==
    flatten(find_offset_find_map(iter_descendants_with_index(self), 0, index))

\* clamp_to_children that ignores the origin's offset: always the last child.
clamp_to_last_child(i, cursor) == len_children(cursor) - 1

\* find_nearest_to: one offset of the origin clamped to the cursor's children.
clamp_to_children(i, cursor) == Min(i, len_children(cursor) - 1)

\* The loop of find_nearest_to over origin.iter_rest()
RECURSIVE find_nearest_loop(_, _, _)
find_nearest_loop(index, cursor, rest) ==
    IF rest = <<>> THEN Some(<<index, cursor>>)
    ELSE IF is_empty(cursor) THEN Some(<<index, cursor>>)
    ELSE LET clamped == clamp_to_children(Head(rest), cursor)
         IN  find_nearest_loop(pushed(index, clamped),
                               get_child(cursor, clamped)[1], Tail(rest))

\* find_nearest_to that clamps the first offset only and drops the rest.
find_nearest_to_first_only(self, origin) ==
    IF is_empty(self) THEN None
    ELSE LET clamped == Min(first(origin), len_children(self) - 1)
         IN  Some(<<new_at(clamped), get_child(self, clamped)[1]>>)

find_nearest_to(self, origin) ==
    IF is_empty(self) THEN None
    ELSE LET clamped == clamp_to_children(first(origin), self)
         IN  find_nearest_loop(new_at(clamped), get_child(self, clamped)[1],
                               iter_rest(origin))

find_first_child(self) ==
    LET c == get_child(self, 0)
    IN  IF c = None THEN None ELSE Some(<<0, c[1]>>)

find_first_descendant(self) ==
    LET c == get_child(self, 0)
    IN  IF c = None THEN None ELSE Some(<<new_at(0), c[1]>>)

\* The descent taking the first child instead of the last.
RECURSIVE find_last_descendant_loop_first(_, _)
find_last_descendant_loop_first(index, cursor) ==
    IF is_empty(cursor) THEN Some(<<index, cursor>>)
    ELSE LET c == get_child(cursor, 0)
         IN  IF c = None THEN None
             ELSE find_last_descendant_loop_first(pushed(index, 0), c[1])

\* The while loop of find_last_descendant_in
RECURSIVE find_last_descendant_loop(_, _)
find_last_descendant_loop(index, cursor) ==
    IF is_empty(cursor) THEN Some(<<index, cursor>>)
    ELSE LET i == len_children(cursor) - 1
             c == get_child(cursor, i)
         IN  IF c = None THEN None
             ELSE find_last_descendant_loop(pushed(index, i), c[1])

\* find_last_descendant_in without the descent: the node at index itself.
find_last_descendant_in_no_descent(self, index) ==
    LET c == get_descendant(self, index)
    IN  IF c = None THEN None ELSE Some(<<index, c[1]>>)

find_last_descendant_in(self, index) ==
    LET c == get_descendant(self, index)
    IN  IF c = None THEN None ELSE find_last_descendant_loop(index, c[1])

\* find_last_child: the outcomes the build can produce, as the value returned
\* and whether the call panicked instead.  `len_children() - 1` overflows on a
\* node without children: a panic with overflow checks, otherwise the index
\* wraps and get_child(0) gives None.  The child paired with the last index is
\* get_child(0).
find_last_child(self) ==
    IF len_children(self) = 0
    THEN {[fault |-> TRUE, value |-> None], [fault |-> FALSE, value |-> None]}
    ELSE LET c == get_child(self, 0)
         IN  {[fault |-> FALSE,
               value |-> IF c = None THEN None
                         ELSE Some(<<len_children(self) - 1, c[1]>>)]}

find_last_descendant(self) ==
    find_last_descendant_in(self, new_at(saturating_sub(len_children(self), 1)))

\* find_previous_child_to without the decrement: the child at index itself.
find_previous_child_to_same(self, index) ==
    LET c == get_child(self, index)
    IN  IF c = None THEN None ELSE Some(<<index, c[1]>>)

find_previous_child_to(self, index) ==
    IF index > 0
    THEN LET c == get_child(self, index - 1)
         IN  IF c = None THEN None ELSE Some(<<index - 1, c[1]>>)
    ELSE None

find_previous_sibling_of(self, index) ==
    IF is_root(index)
    THEN LET p == find_previous_child_to(self, first(index))
         IN  IF p = None THEN None ELSE Some(<<new_at(p[1][1]), p[1][2]>>)
    ELSE LET parent_index == popped(index)
             parent == get_descendant(self, parent_index)
         IN  IF parent = None THEN None
             ELSE LET p == find_previous_child_to(parent[1], last(index))
                  IN  IF p = None THEN None
                      ELSE Some(<<pushed(parent_index, p[1][1]), p[1][2]>>)

\* previous_candidate that takes the previous sibling itself, not its last
\* descendant.
previous_candidate_sibling_only(self, cursor_index, cursor, i) ==
    LET p == find_previous_child_to(cursor, i)
    IN  IF p = None THEN Some(<<cursor_index, cursor>>)
        ELSE Some(<<pushed(cursor_index, p[1][1]), p[1][2]>>)

\* The match of find_previous_relative_of at one offset below the first.
previous_candidate(self, cursor_index, cursor, i) ==
    LET p == find_previous_child_to(cursor, i)
    IN  IF p = None THEN Some(<<cursor_index, cursor>>)
        ELSE find_last_descendant_in(self, pushed(cursor_index, p[1][1]))

\* The loop of find_previous_relative_of over index.iter().skip(1)
RECURSIVE find_previous_relative_loop(_, _, _, _, _)
find_previous_relative_loop(self, cursor_index, cursor, previous, rest) ==
    IF rest = <<>> THEN previous
    ELSE LET i == Head(rest)
             candidate == previous_candidate(self, cursor_index, cursor, i)
             c == get_child(cursor, i)
         IN  IF c = None THEN None
             ELSE find_previous_relative_loop(self, pushed(cursor_index, i), c[1],
                                              candidate, Tail(rest))

find_previous_relative_of(self, index) ==
    LET c == get_child(self, first(index))
    IN  IF c = None THEN None
        ELSE LET p == find_previous_child_to(self, first(index))
                 previous ==
                     IF p = None THEN None
                     ELSE find_last_descendant_in(self, spliced(index, 0, p[1][1]))
             IN  find_previous_relative_loop(self, new_at(first(index)), c[1],
                                             previous, iter_rest(index))

find_next_child_to(self, index) ==
    LET next_index == index + 1
    IN  IF next_index < len_children(self)
        THEN LET c == get_child(self, next_index)
             IN  IF c = None THEN None ELSE Some(<<next_index, c[1]>>)
        ELSE None

find_next_sibling_of(self, index) ==
    IF is_root(index)
    THEN LET n == find_next_child_to(self, first(index))
         IN  IF n = None THEN None ELSE Some(<<new_at(n[1][1]), n[1][2]>>)
    ELSE LET parent_index == popped(index)
             parent == get_descendant(self, parent_index)
         IN  IF parent = None THEN None
             ELSE LET n == find_next_child_to(parent[1], last(index))
                  IN  IF n = None THEN None
                      ELSE Some(<<pushed(parent_index, n[1][1]), n[1][2]>>)

\* next_candidate with get_or_insert in place of insert: the shallowest sibling
\* found is kept.
next_candidate_keep_first(index, cursor, place, i, next) ==
    LET n == find_next_child_to(cursor, i)
    IN  IF n = None \/ next # None THEN next
        ELSE Some(<<spliced(index, place, n[1][1]), n[1][2]>>)

\* next.insert(..) of find_next_relative_of: the sibling found at `place`, if any,
\* replaces the candidate remembered so far.
next_candidate(index, cursor, place, i, next) ==
    LET n == find_next_child_to(cursor, i)
    IN  IF n = None THEN next
        ELSE Some(<<spliced(index, place, n[1][1]), n[1][2]>>)

\* The loop of find_next_relative_of over index.iter().enumerate().skip(1);
\* it ends with the cursor's first child, or else the remembered candidate.
RECURSIVE find_next_relative_loop(_, _, _, _)
find_next_relative_loop(index, cursor, next, place) ==
    IF place >= Len(index)
    THEN LET f == find_first_child(cursor)
         IN  IF f = None THEN next ELSE Some(<<pushed(index, f[1][1]), f[1][2]>>)
    ELSE LET i == index[place + 1]
             candidate == next_candidate(index, cursor, place, i, next)
             c == get_child(cursor, i)
         IN  IF c = None THEN None
             ELSE find_next_relative_loop(index, c[1], candidate, place + 1)

find_next_relative_of(self, index) ==
    LET c == get_child(self, first(index))
    IN  IF c = None THEN None
        ELSE LET n == find_next_child_to(self, first(index))
                 next == IF n = None THEN None
                         ELSE Some(<<spliced(index, 0, n[1][1]), n[1][2]>>)
             IN  find_next_relative_loop(index, c[1], next, 1)

\* find_parent_of without the pop: the node at the address itself.
find_parent_of_self(self, index) ==
    LET c == get_descendant(self, index)
    IN  IF c = None THEN None ELSE Some(<<index, c[1]>>)

find_parent_of(self, index) ==
    LET p == pop(index)
    IN  IF p[2] = None THEN None
        ELSE LET parent == get_descendant(self, p[1])
             IN  IF parent = None THEN None ELSE Some(<<p[1], parent[1]>>)

\* ------------------------------------------------------------------ widget.rs

height(item) == item.height

\* Iterator::skip(n) of a TreeIter: n items are taken and dropped.
RECURSIVE TreeIter_skip(_, _)
TreeIter_skip(stack, n) ==
    IF n = 0 THEN stack
    ELSE LET r == TreeIter_next(stack)
         IN  IF r[1] = None THEN r[2] ELSE TreeIter_skip(r[2], n - 1)

\* The window of get_items_bounds while it is computed: first_visible_index,
\* last_visible_index, height_from_offset; `fault` is set when the code would
\* panic (unwrap of None) or underflow an index.

\* get_items_bounds, the for loop: the items that fit, starting at the offset.
RECURSIVE fit_from_offset(_, _, _)
fit_from_offset(stack, w, max_height) ==
    LET r == TreeIter_next(stack)
    IN  IF r[1] = None THEN w
        ELSE IF w.height + height(r[1][1]) > max_height THEN w
        ELSE fit_from_offset(r[2],
                 [w EXCEPT !.height = @ + height(r[1][1]), !.last = @ + 1],
                 max_height)

\* apply_scroll_padding_to_selected_index: height_around_selected for a padding
RECURSIVE height_around(_, _, _)
height_around(self, lo, hi) ==
    IF lo > hi THEN 0
    ELSE height(get_descendant_infix(self, lo)[1]) + height_around(self, lo + 1, hi)

\* apply_scroll_padding_to_selected_index: the while loop reducing the padding
RECURSIVE reduce_scroll_padding(_, _, _, _, _)
reduce_scroll_padding(self, sel, scroll_padding, max_height, last_valid_index) ==
    IF scroll_padding > 0
    THEN IF height_around(self, saturating_sub(sel, scroll_padding),
                          Min(sel + scroll_padding, last_valid_index)) <= max_height
         THEN scroll_padding
         ELSE reduce_scroll_padding(self, sel, scroll_padding - 1, max_height,
                                    last_valid_index)
    ELSE scroll_padding

\* The padded offset taken on the far side of the selection whatever the window.
padded_index_forward_only(sel, scroll_padding, lo, hi, last_valid_index) ==
    Min(sel + scroll_padding, last_valid_index)

\* apply_scroll_padding_to_selected_index: the offset that must be displayed
padded_index(sel, scroll_padding, lo, hi, last_valid_index) ==
    Min(IF Min(sel + scroll_padding, last_valid_index) >= hi
        THEN sel + scroll_padding
        ELSE IF saturating_sub(sel, scroll_padding) < lo
        THEN saturating_sub(sel, scroll_padding)
        ELSE sel,
        last_valid_index)

apply_scroll_padding_to_selected_index(self, sel_index, max_height, lo, hi) ==
    LET last_valid_index == saturating_sub(len_descendants(self), 1)
        found == IF sel_index = None THEN None
                 ELSE find_offset_of_index(self, sel_index[1])
    IN  IF found = None THEN None
        ELSE LET sel == Min(found[1][1], last_valid_index)
                 scroll_padding ==
                     reduce_scroll_padding(self, sel, self.scroll_padding,
                                           max_height, last_valid_index)
             IN  Some(padded_index(sel, scroll_padding, lo, hi,
                                   last_valid_index))

\* The inner loop hiding leading items until the window is below the capacity
\* (>= in place of >).
RECURSIVE hide_previous_items_eagerly(_, _, _)
hide_previous_items_eagerly(self, w, max_height) ==
    IF w.fault \/ ~(w.height >= max_height) \/ w.first + 1 >= w.last THEN w
    ELSE LET item == get_descendant_infix(self, w.first)
         IN  IF item = None THEN [w EXCEPT !.fault = TRUE]
             ELSE hide_previous_items_eagerly(self,
                      [w EXCEPT !.height = saturating_sub(@, height(item[1])),
                                !.first = @ + 1],
                      max_height)

\* get_items_bounds, inner loop of the forward expansion: hide leading items.
RECURSIVE hide_previous_items(_, _, _)
hide_previous_items(self, w, max_height) ==
    IF w.fault \/ ~(w.height > max_height) THEN w
    ELSE LET item == get_descendant_infix(self, w.first)
         IN  IF item = None THEN [w EXCEPT !.fault = TRUE]
             ELSE hide_previous_items(self,
                      [w EXCEPT !.height = saturating_sub(@, height(item[1])),
                                !.first = @ + 1],
                      max_height)

\* get_items_bounds, forward expansion: while index_to_display >= last_visible_index
RECURSIVE show_forward(_, _, _, _)
show_forward(self, w, index_to_display, max_height) ==
    IF w.fault \/ ~(index_to_display >= w.last) THEN w
    ELSE LET item == get_descendant_infix(self, w.last)
         IN  IF item = None THEN [w EXCEPT !.fault = TRUE]
             ELSE show_forward(self,
                      hide_previous_items(self,
                          [w EXCEPT !.height = @ + height(item[1]), !.last = @ + 1],
                          max_height),
                      index_to_display, max_height)

\* get_items_bounds, inner loop of the backward expansion: hide trailing items.
RECURSIVE hide_next_items(_, _, _)
hide_next_items(self, w, max_height) ==
    IF w.fault \/ ~(w.height > max_height) THEN w
    ELSE IF w.last = 0 THEN [w EXCEPT !.fault = TRUE]
    ELSE LET item == get_descendant_infix(self, w.last - 1)
         IN  IF item = None THEN [w EXCEPT !.fault = TRUE, !.last = @ - 1]
             ELSE hide_next_items(self,
                      [w EXCEPT !.last = @ - 1,
                                !.height = saturating_sub(@, height(item[1]))],
                      max_height)

\* get_items_bounds, backward expansion: while index_to_display < first_visible_index
RECURSIVE show_backward(_, _, _, _)
show_backward(self, w, index_to_display, max_height) ==
    IF w.fault \/ ~(index_to_display < w.first) THEN w
    ELSE LET item == get_descendant_infix(self, w.first - 1)
         IN  IF item = None THEN [w EXCEPT !.fault = TRUE, !.first = @ - 1]
             ELSE show_backward(self,
                      hide_next_items(self,
                          [w EXCEPT !.first = @ - 1, !.height = @ + height(item[1])],
                          max_height),
                      index_to_display, max_height)

\* get_items_bounds, the offset clamped to the last item and the window of the
\* items that fit from there, before any expansion.
fit_window(self, scroll_offset, max_height) ==
    LET clamped == Min(scroll_offset, saturating_sub(len_descendants(self), 1))
    IN  fit_from_offset(TreeIter_skip(iter_descendants(self), clamped),
            [first |-> clamped, last |-> clamped, height |-> 0, fault |-> FALSE],
            max_height)

\* get_items_bounds, index_to_display: the padded selection, or the clamped
\* offset when nothing is selected (unwrap_or(offset)).
display_index(self, sel_index, scroll_offset, max_height) ==
    LET fit == fit_window(self, scroll_offset, max_height)
        padded == apply_scroll_padding_to_selected_index(self, sel_index,
                      max_height, fit.first, fit.last)
    IN  IF padded = None
        THEN Min(scroll_offset, saturating_sub(len_descendants(self), 1))
        ELSE padded[1]

\* get_items_bounds: the window [first, last) as a record, with the height it
\* holds and the fault flag; the code returns (first, last).
get_items_bounds(self, sel_index, scroll_offset, max_height) ==
    LET fit == fit_window(self, scroll_offset, max_height)
        target == display_index(self, sel_index, scroll_offset, max_height)
    IN  show_backward(self,
            show_forward(self, fit, target, max_height),
            target, max_height)

\* Tree::select_up on Option<TreeIndex>: the selection afterwards.
select_up(self, sel) ==
    IF sel = None
    THEN LET r == find_first_child(self)
         IN  IF r = None THEN None ELSE Some(new_at(r[1][1]))
    ELSE LET r == find_previous_relative_of(self, sel[1])
         IN  IF r = None THEN sel ELSE Some(r[1][1])

\* Tree::select_down
select_down(self, sel) ==
    IF sel = None
    THEN LET r == find_last_descendant(self)
         IN  IF r = None THEN None ELSE Some(r[1][1])
    ELSE LET r == find_next_relative_of(self, sel[1])
         IN  IF r = None THEN sel ELSE Some(r[1][1])

\* Tree::select_parent
select_parent(self, sel) ==
    IF sel = None
    THEN LET r == find_first_child(self)
         IN  IF r = None THEN None ELSE Some(new_at(r[1][1]))
    ELSE LET r == find_parent_of(self, sel[1])
         IN  IF r = None THEN sel ELSE Some(r[1][1])

\* An area taken as empty only when it has no rows.
Rect_is_empty_rows_only(area) == area.height = 0

\* Rect::is_empty
Rect_is_empty(area) == area.width = 0 \/ area.height = 0

\* render_ref without the repair of the selection by find_nearest_to.
repair_selection_skipped(self, sel) == sel

\* render_ref: the stored selection set to the nearest item.
repair_selection(self, sel) ==
    IF sel = None THEN None
    ELSE LET r == find_nearest_to(self, sel[1])
         IN  IF r = None THEN None ELSE Some(r[1][1])

\* Iterator::enumerate: the items with their positions from 0.
Iterator_enumerate(items) == [k \in 1..Len(items) |-> <<k - 1, items[k]>>]

\* skip(n) that drops nothing.
Iterator_skip_none(items, n) == items

\* Iterator::skip(n)
Iterator_skip(items, n) ==
    IF n >= Len(items) THEN <<>> ELSE SubSeq(items, n + 1, Len(items))

\* Iterator::take(n)
Iterator_take(items, n) == SubSeq(items, 1, Min(n, Len(items)))

\* render_ref, the loop that draws: the (i, (depth, item)) it visits, in order.
\* `fault` is set when get_items_bounds failed or last_visible_index -
\* first_visible_index overflows.
draw_items(self, state_offset, w) ==
    IF w.fault \/ w.last < w.first THEN [fault |-> TRUE, items |-> <<>>]
    ELSE [fault |-> FALSE,
          items |-> Iterator_take(
                        Iterator_skip(
                            Iterator_enumerate(TreeIterWithDepth_collect(
                                iter_descendants_with_depth(self))),
                            state_offset),
                        w.last - w.first)]

\* StatefulWidgetRef::render_ref for Tree (the block is None: tree_area = area):
\* the state afterwards, the window and the items drawn, None when the call
\* returns before the window is computed.
render_ref(self, area, state) ==
    IF Rect_is_empty(area)
    THEN [state |-> state, window |-> None, drawn |-> None]
    ELSE IF is_empty(self)
    THEN [state |-> [state EXCEPT !.selected = None], window |-> None,
          drawn |-> None]
    ELSE LET sel == repair_selection(self, state.selected)
             w == get_items_bounds(self, sel, state.offset, area.height)
         IN  [state |-> [selected |-> sel, offset |-> w.first],
              window |-> Some(w),
              drawn |-> Some(draw_items(self, w.first, w))]

\* ------------------------------------------------------------------ stack.rs

\* Controller::select_up: the selection of model.tree afterwards.
Controller_select_up(stack, sel) ==
    IF sel = None THEN None
    ELSE LET r == find_previous_relative_of(stack, sel[1])
         IN  IF r = None THEN None ELSE Some(r[1][1])

\* Controller::select_down
Controller_select_down(stack, sel) ==
    IF sel = None THEN None
    ELSE LET r == find_next_relative_of(stack, sel[1])
         IN  IF r = None THEN None ELSE Some(r[1][1])

\* A commit of the repository, as far as the stack looks at it: the number of
\* its parents and the number of files its diff against the parent touches.
\* A CommitNode is [commit, diff, children, is_collapsed]: children are its
\* deltas (TreeView for Node iterates commit.deltas whatever is_collapsed), diff
\* is None until it is loaded.  The StackTree is [children |-> commits].

StackTree_new == [children |-> <<>>]

\* From<DiffDelta> for DeltaNode, one per file of the diff
Diff_deltas(commit) ==
    [k \in 1..commit.files |-> [file |-> k, children |-> <<>>]]

\* From<Commit> for CommitNode
CommitNode_from(commit) ==
    [commit |-> commit, diff |-> None, children |-> <<>>, is_collapsed |-> TRUE]

\* Into<TreeItem> for &Node: one line, and the deltas of a commit only when it
\* is not collapsed.
TreeItem_from(node) ==
    IF "commit" \in DOMAIN node
    THEN [name |-> "commit", height |-> 1,
          children |-> IF node.is_collapsed THEN <<>>
                       ELSE [k \in 1..Len(node.children) |->
                                [name |-> "delta", height |-> 1,
                                 children |-> <<>>]]]
    ELSE [name |-> "delta", height |-> 1, children |-> <<>>]

\* Tree::new(&self.model.stack.commits) in draw_content
Tree_new(commits) ==
    [children |-> [k \in 1..Len(commits) |-> TreeItem_from(commits[k])],
     scroll_padding |-> 0]

\* toggle_deltas flipping is_collapsed before the diff is loaded.
toggle_deltas_flip_first(stack, commit_index, repo_ok) ==
    IF commit_index >= Len(stack.children)
    THEN [stack |-> stack, result |-> "Ok"]
    ELSE LET commit_node == stack.children[commit_index + 1]
             flipped == [commit_node EXCEPT !.is_collapsed = ~@]
         IN  IF commit_node.diff = None
             THEN IF commit_node.commit.parent_count # 1 \/ ~repo_ok
                  THEN [stack |-> [stack EXCEPT !.children[commit_index + 1] = flipped],
                        result |-> "Err"]
                  ELSE [stack |-> [stack EXCEPT !.children[commit_index + 1] =
                                      [flipped EXCEPT
                                          !.children = Diff_deltas(commit_node.commit),
                                          !.diff = Some(commit_node.commit)]],
                        result |-> "Ok"]
             ELSE [stack |-> [stack EXCEPT !.children[commit_index + 1] = flipped],
                   result |-> "Ok"]

\* Model::toggle_deltas: the stack afterwards and Ok or Err.  repo_ok tells
\* whether the repository gives the parent, the two trees and their diff.
toggle_deltas(stack, commit_index, repo_ok) ==
    IF commit_index >= Len(stack.children)
    THEN [stack |-> stack, result |-> "Ok"]
    ELSE LET commit_node == stack.children[commit_index + 1]
         IN  IF commit_node.diff = None
             THEN IF commit_node.commit.parent_count # 1
                  THEN [stack |-> stack, result |-> "Err"]
                  ELSE IF ~repo_ok
                  THEN [stack |-> stack, result |-> "Err"]
                  ELSE [stack |-> [stack EXCEPT !.children[commit_index + 1] =
                                      [commit_node EXCEPT
                                          !.children = Diff_deltas(commit_node.commit),
                                          !.diff = Some(commit_node.commit),
                                          !.is_collapsed = ~@]],
                        result |-> "Ok"]
             ELSE [stack |-> [stack EXCEPT !.children[commit_index + 1] =
                                 [commit_node EXCEPT !.is_collapsed = ~@]],
                   result |-> "Ok"]

\* Model::show_delta: Ok or Err; it only rewrites the preview, which is not
\* modelled.  The walk over the diff can fail once the diff is loaded.
show_delta(stack, commit_index, delta_index, repo_ok) ==
    IF commit_index >= Len(stack.children) THEN "Ok"
    ELSE IF stack.children[commit_index + 1].diff # None /\ ~repo_ok THEN "Err"
    ELSE "Ok"

\* Model::load_commits_since_merge_base_with on the model [stack, tree]: repo
\* is the commits between the merge base and HEAD, oldest first; resolved
\* tells whether the references, the merge base and the revision walk were
\* obtained, walked how many commits the walk gave before it failed (all of
\* them when it did not).  The walk goes from HEAD down.
load_commits_since_merge_base_with(model, repo, resolved, walked) ==
    IF ~resolved THEN [model |-> model, result |-> "Err"]
    ELSE IF walked < Len(repo)
    THEN [model |-> [model EXCEPT !.stack.children =
                        [k \in 1..walked |-> CommitNode_from(repo[Len(repo) + 1 - k])]],
          result |-> "Err"]
    ELSE [model |-> [stack |-> [children |->
                                   [k \in 1..Len(repo) |-> CommitNode_from(repo[k])]],
                     tree |-> [model.tree EXCEPT !.selected =
                                  IF Len(repo) = 0 THEN None ELSE Some(new_at(0))]],
          result |-> "Ok"]

\* The messages of the controller's queue.
Message_Load == [kind |-> "Load"]

Message_Exit == [kind |-> "Exit"]

Message_Terminal(event) == [kind |-> "Terminal", event |-> event]

\* Controller::exit: the queue afterwards.
Controller_exit(queue) == <<Message_Exit>>

\* Controller::draw_content on the controller [model, queue] with the message
\* popped by draw: the key action, then the tree built from the stack and
\* rendered into the tree area.  The controller afterwards and Ok or Err.
Controller_draw_content(c, message, area, repo_ok) ==
    LET key == IF message # None /\ message[1].kind = "Terminal"
                  /\ message[1].event.press
               THEN message[1].event.code ELSE "none"
        sel == c.model.tree.selected
        render(m) ==
            [m EXCEPT !.tree =
                render_ref(Tree_new(m.stack.children), area, m.tree).state]
    IN  IF key = "q"
        THEN [c |-> [c EXCEPT !.queue = Controller_exit(c.queue)], result |-> "Ok"]
        ELSE IF key = " " /\ sel # None /\ Len(sel[1]) = 1
        THEN LET r == toggle_deltas(c.model.stack, sel[1][1], repo_ok)
             IN  IF r.result = "Err" THEN [c |-> c, result |-> "Err"]
                 ELSE [c |-> [c EXCEPT !.model =
                                 render([c.model EXCEPT !.stack = r.stack])],
                       result |-> "Ok"]
        ELSE IF key = " " /\ sel # None /\ Len(sel[1]) = 2
        THEN IF show_delta(c.model.stack, sel[1][1], sel[1][2], repo_ok) = "Err"
             THEN [c |-> c, result |-> "Err"]
             ELSE [c |-> [c EXCEPT !.model = render(c.model)], result |-> "Ok"]
        ELSE LET moved ==
                     IF key = "Up"
                     THEN Controller_select_up(c.model.stack, sel)
                     ELSE IF key = "Down"
                     THEN Controller_select_down(c.model.stack, sel)
                     ELSE sel
             IN  [c |-> [c EXCEPT !.model =
                            render([c.model EXCEPT !.tree.selected = moved])],
                  result |-> "Ok"]

\* Controller::draw: the front message is popped; Ctrl+C, Ctrl+Q and Ctrl+X
\* exit at once, Load loads the stack, and the content is drawn.
Controller_draw(c, repo, area, resolved, walked, repo_ok) ==
    LET message == IF c.queue = <<>> THEN None ELSE Some(Head(c.queue))
        taken == IF c.queue = <<>> THEN c ELSE [c EXCEPT !.queue = Tail(@)]
    IN  IF /\ message # None
           /\ message[1].kind = "Terminal"
           /\ message[1].event.ctrl
           /\ message[1].event.code \in {"c", "q", "x"}
        THEN [c |-> [taken EXCEPT !.queue = Controller_exit(taken.queue)],
              result |-> "Ok"]
        ELSE IF message # None /\ message[1].kind = "Load"
        THEN LET l == load_commits_since_merge_base_with(taken.model, repo,
                          resolved, walked)
             IN  IF l.result = "Err"
                 THEN [c |-> [taken EXCEPT !.model = l.model], result |-> "Err"]
                 ELSE Controller_draw_content([taken EXCEPT !.model = l.model],
                          message, area, repo_ok)
        ELSE Controller_draw_content(taken, message, area, repo_ok)

\* ------------------------------------------------------------------ inputs

\* All forests of n nodes and depth <= d, named base, base+1, ... in pre-order.
RECURSIVE Forests(_, _, _)
Forests(n, d, base) ==
    IF n = 0 THEN {<<>>}
    ELSE IF d = 0 THEN {}
    ELSE UNION {
        {<<[name |-> base, height |-> 1, children |-> f1]>> \o f2 :
            f1 \in Forests(k, d - 1, base + 1),
            f2 \in Forests(n - 1 - k, d, base + 1 + k)} : k \in 0..(n - 1)}

Leaf(name) == [name |-> name, height |-> 1, children |-> <<>>]

\* The tree of tests/test_view.rs: root[a[b, c], x[y, z]], named 0..5.
TestTree ==
    << [name |-> 0, height |-> 1, children |-> <<Leaf(1), Leaf(2)>>],
       [name |-> 3, height |-> 1, children |-> <<Leaf(4), Leaf(5)>>] >>

Shapes == UNION {Forests(n, MaxDepth, 0) : n \in 0..MaxNodes} \cup {TestTree}

\* Addresses a caller may hold: any non-empty path, stale or not
\* (and the far out-of-range address of the documented example).
Indices ==
    UNION {[1..n -> 0..MaxIndex] : n \in 1..(MaxDepth + 1)} \cup {<<0, 5>>}

\* ------------------------------------------------------------------ SpecView
\* The queries of view.rs, each applied to every enumerated tree and address.

Root(children) == [children |-> children, scroll_padding |-> 0]

InitView ==
    /\ tree \in {Root(f) : f \in Shapes}
    /\ selected = None
    /\ offset = 0
    /\ op = "new"
    /\ arg \in Indices
    /\ ret = <<>>

Call(name, r) ==
    /\ op = "new"
    /\ op' = name
    /\ ret' = r
    /\ UNCHANGED <<tree, selected, offset, arg>>

\* A query that takes an offset: the offset is the enumerated root-level address.
CallWithOffset(name, r) == is_root(arg) /\ Call(name, r)

\* A query without an argument, applied once to every tree.
CallOnTree(name, r) == arg = new_at(0) /\ Call(name, r)

Call_get_descendant == Call("get_descendant", get_descendant(tree, arg))

Call_find_offset_of_index ==
    Call("find_offset_of_index", find_offset_of_index(tree, arg))

Call_find_nearest_to == Call("find_nearest_to", find_nearest_to(tree, arg))

Call_find_previous_relative_of ==
    Call("find_previous_relative_of", find_previous_relative_of(tree, arg))

Call_find_next_relative_of ==
    Call("find_next_relative_of", find_next_relative_of(tree, arg))

Call_find_last_descendant_in ==
    Call("find_last_descendant_in", find_last_descendant_in(tree, arg))

Call_find_previous_sibling_of ==
    Call("find_previous_sibling_of", find_previous_sibling_of(tree, arg))

Call_find_next_sibling_of ==
    Call("find_next_sibling_of", find_next_sibling_of(tree, arg))

Call_find_parent_of ==
    Call("find_parent_of", find_parent_of(tree, arg))

\* The whole traversal with addresses, collected.
Call_iter_descendants_with_index ==
    Call("iter_descendants_with_index",
         TreeIterWithIndex_collect(iter_descendants_with_index(tree)))

\* The whole traversal collected, and two more calls of next() after its end.
Call_iter_descendants ==
    LET end == TreeIter_exhaust(iter_descendants(tree))
    IN  CallOnTree("iter_descendants",
             [items |-> TreeIter_collect(iter_descendants(tree)),
              further |-> <<TreeIter_next(end)[1],
                            TreeIter_next(TreeIter_next(end)[2])[1]>>])

\* The whole traversal with depths, collected.
Call_iter_descendants_with_depth ==
    CallOnTree("iter_descendants_with_depth",
         TreeIterWithDepth_collect(iter_descendants_with_depth(tree)))

\* get_child on the root.
Call_get_child == CallWithOffset("get_child", get_child(tree, first(arg)))

Call_find_index_of_offset ==
    CallWithOffset("find_index_of_offset", find_index_of_offset(tree, first(arg)))

Call_get_descendant_infix ==
    CallWithOffset("get_descendant_infix", get_descendant_infix(tree, first(arg)))

\* Tree::select_parent with the enumerated address as the selection.
Call_select_parent ==
    Call("Tree::select_parent", select_parent(tree, Some(arg)))

Call_find_first_child == CallOnTree("find_first_child", find_first_child(tree))

Call_find_last_child ==
    \E r \in find_last_child(tree) : CallOnTree("find_last_child", r)

Call_find_last_descendant ==
    CallOnTree("find_last_descendant", find_last_descendant(tree))

NextView ==
    \/ Call_get_descendant
    \/ Call_find_offset_of_index
    \/ Call_find_nearest_to
    \/ Call_find_previous_relative_of
    \/ Call_find_next_relative_of
    \/ Call_find_last_descendant_in
    \/ Call_find_previous_sibling_of
    \/ Call_find_next_sibling_of
    \/ Call_find_parent_of
    \/ Call_iter_descendants_with_index
    \/ Call_iter_descendants
    \/ Call_iter_descendants_with_depth
    \/ Call_get_child
    \/ Call_find_index_of_offset
    \/ Call_get_descendant_infix
    \/ Call_select_parent
    \/ Call_find_first_child
    \/ Call_find_last_child
    \/ Call_find_last_descendant

SpecView == InitView /\ [][NextView]_vars

\* ------------------------------------------------------------------ SpecIndex
\* The operations of index.rs TreeIndex and index2.rs TreeIndex / TreeIndexBuf
\* applied to every enumerated address.  arg is the receiver, changed by the
\* &mut self operations; ret holds the receiver before the call, the arguments
\* and the value returned (None for the operations that return nothing).

Places == 0..(MaxDepth + 2)

InitIndex ==
    /\ tree = Root(<<>>)
    /\ selected = None
    /\ offset = 0
    /\ op = "new"
    /\ arg \in Indices \cup {<<>>}
    /\ ret = <<>>

\* An operation on a non-empty address: the receiver afterwards and the value.
IndexOp(name, args, after, value) ==
    /\ op = "new"
    /\ arg # <<>>
    /\ op' = name
    /\ arg' = after
    /\ ret' = [self |-> arg, args |-> args, value |-> value]
    /\ UNCHANGED <<tree, selected, offset>>

TreeIndex_push ==
    \E i \in 0..MaxIndex : IndexOp("push", <<i>>, pushed(arg, i), None)

TreeIndex_pushed ==
    \E i \in 0..MaxIndex : IndexOp("pushed", <<i>>, arg, Some(pushed(arg, i)))

TreeIndex_pop == IndexOp("pop", <<>>, pop(arg)[1], pop(arg)[2])

TreeIndex_popped == IndexOp("popped", <<>>, arg, Some(popped(arg)))

TreeIndex_splice ==
    \E place \in Places, i \in 0..MaxIndex :
        IndexOp("splice", <<place, i>>, spliced(arg, place, i), None)

TreeIndex_spliced ==
    \E place \in Places, i \in 0..MaxIndex :
        IndexOp("spliced", <<place, i>>, arg, Some(spliced(arg, place, i)))

TreeIndex_floor ==
    \E place \in Places : IndexOp("floor", <<place>>, floored(arg, place), None)

TreeIndex_floored ==
    \E place \in Places :
        IndexOp("floored", <<place>>, arg, Some(floored(arg, place)))

\* index2 TreeIndex::new on any slice, the empty one included.
TreeIndex2_new_call ==
    /\ op = "new"
    /\ op' = "TreeIndex2::new"
    /\ ret' = [self |-> arg, args |-> <<>>, value |-> TreeIndex2_new(arg)]
    /\ UNCHANGED <<tree, selected, offset, arg>>

TreeIndex2_parent_call ==
    IndexOp("TreeIndex2::parent", <<>>, arg, TreeIndex2_parent(arg))

TreeIndex2_rest_call ==
    IndexOp("TreeIndex2::rest", <<>>, arg, TreeIndex2_rest(arg))

NextIndex ==
    \/ TreeIndex_push
    \/ TreeIndex_pushed
    \/ TreeIndex_pop
    \/ TreeIndex_popped
    \/ TreeIndex_splice
    \/ TreeIndex_spliced
    \/ TreeIndex_floor
    \/ TreeIndex_floored
    \/ TreeIndex2_new_call
    \/ TreeIndex2_parent_call
    \/ TreeIndex2_rest_call

SpecIndex == InitIndex /\ [][NextIndex]_vars

\* ------------------------------------------------------------------ Spec
\* The tree widget with its state, as the applications drive it: the tree is
\* replaced wholesale, key events move the selection, render_ref repairs the
\* selection and rewrites the scroll offset.  op names the last step, arg holds
\* the TreeState before it (and the area of a render), ret the window drawn.

Trees == {Root(f) : f \in UNION {Forests(n, MaxDepth, 0) : n \in 0..MaxNodes}}

Areas ==
    {[width |-> 1, height |-> h] : h \in 0..MaxCapacity}
        \cup {[width |-> 0, height |-> 1]}

TreeState == [selected |-> selected, offset |-> offset]

\* TreeState::default()
Init ==
    /\ tree \in Trees
    /\ selected = None
    /\ offset = 0
    /\ op = "new"
    /\ arg = <<>>
    /\ ret = <<>>

\* The caller builds a new Tree (a structural change); the TreeState is kept.
SetTree ==
    /\ tree' \in Trees
    /\ op' = "set_tree"
    /\ arg' = TreeState
    /\ ret' = <<>>
    /\ UNCHANGED <<selected, offset>>

\* Model::load_commits_since_merge_base_with: the stack is replaced and the
\* first commit selected.
Load ==
    /\ tree' \in Trees
    /\ selected' = IF is_empty(tree') THEN None ELSE Some(new_at(0))
    /\ op' = "load"
    /\ arg' = TreeState
    /\ ret' = <<>>
    /\ UNCHANGED offset

KeyEvent(name, sel) ==
    /\ selected' = sel
    /\ op' = name
    /\ arg' = TreeState
    /\ ret' = <<>>
    /\ UNCHANGED <<tree, offset>>

SelectUp == KeyEvent("select_up", select_up(tree, selected))

SelectDown == KeyEvent("select_down", select_down(tree, selected))

SelectParent == KeyEvent("select_parent", select_parent(tree, selected))

ControllerSelectUp ==
    KeyEvent("Controller_select_up", Controller_select_up(tree, selected))

ControllerSelectDown ==
    KeyEvent("Controller_select_down", Controller_select_down(tree, selected))

Render ==
    \E area \in Areas :
        \E r \in {render_ref(tree, area, TreeState)} :
            /\ selected' = r.state.selected
            /\ offset' = r.state.offset
            /\ op' = "render_ref"
            /\ arg' = [selected |-> selected, offset |-> offset, area |-> area]
            /\ ret' = [window |-> r.window, drawn |-> r.drawn]
            /\ UNCHANGED tree

Next ==
    \/ SetTree
    \/ Load
    \/ SelectUp
    \/ SelectDown
    \/ SelectParent
    \/ ControllerSelectUp
    \/ ControllerSelectDown
    \/ Render

Spec == Init /\ [][Next]_vars

\* ------------------------------------------------------------------ reference
\* Notions the claims are stated in, defined on the tree's structure and not
\* through the traversals or queries under test.

\* The addresses of the nodes below `self`.
RECURSIVE AddressesBelow(_)
AddressesBelow(self) ==
    UNION {{<<i - 1>>} \cup {<<i - 1>> \o b : b \in AddressesBelow(self.children[i])} :
           i \in 1..Len(self.children)}

\* The node at a valid address.
RECURSIVE NodeAt(_, _)
NodeAt(self, a) ==
    IF Len(a) = 1 THEN self.children[a[1] + 1]
    ELSE NodeAt(self.children[a[1] + 1], Tail(a))

IsPrefix(b, a) == Len(b) <= Len(a) /\ SubSeq(a, 1, Len(b)) = b

\* b comes before a in pre-order: b is a proper ancestor of a, or b branches
\* off to the left of a.
Precedes(b, a) ==
    \/ IsPrefix(b, a) /\ Len(b) < Len(a)
    \/ \E k \in 1..Min(Len(a), Len(b)) :
          /\ SubSeq(b, 1, k - 1) = SubSeq(a, 1, k - 1)
          /\ b[k] < a[k]

\* The linear pre-order offset of a valid address.
PreorderOffset(self, a) ==
    Cardinality({b \in AddressesBelow(self) : Precedes(b, a)})

Resolves(self, a) == a \in AddressesBelow(self)

\* The next sibling of the nearest ancestor-or-self that has one.
RECURSIVE NextSiblingUpward(_, _)
NextSiblingUpward(self, a) ==
    LET sibling == [a EXCEPT ![Len(a)] = a[Len(a)] + 1]
    IN  IF Resolves(self, sibling) THEN Some(sibling)
        ELSE IF Len(a) = 1 THEN None
        ELSE NextSiblingUpward(self, SubSeq(a, 1, Len(a) - 1))

\* The address reached from a by taking the last child down to a leaf.
RECURSIVE LastBelow(_, _)
LastBelow(self, a) ==
    LET n == Len(NodeAt(self, a).children)
    IN  IF n = 0 THEN a ELSE LastBelow(self, Append(a, n - 1))

\* The address of the node at a linear pre-order offset.
AddressAt(self, k) ==
    CHOOSE a \in AddressesBelow(self) : PreorderOffset(self, a) = k

\* The combined height of the items at the offsets lo..hi.
RECURSIVE CombinedHeight(_, _, _)
CombinedHeight(self, lo, hi) ==
    IF lo > hi THEN 0
    ELSE NodeAt(self, AddressAt(self, lo)).height + CombinedHeight(self, lo + 1, hi)

\* The combined height of the (up to) 2p+1 items around the offset s.
HeightAround(self, s, p) ==
    CombinedHeight(self, IF s > p THEN s - p ELSE 0,
                   Min(s + p, Cardinality(AddressesBelow(self)) - 1))

\* The nodes below `self` in pre-order.
PreorderNodes(self) ==
    [k \in 1..Cardinality(AddressesBelow(self)) |->
        NodeAt(self, AddressAt(self, k - 1))]

\* The children of the parent of an address whose parent exists; the parent of
\* a root-level address is the root.
SiblingsOf(self, a) ==
    IF Len(a) = 1 THEN self.children
    ELSE NodeAt(self, SubSeq(a, 1, Len(a) - 1)).children

\* ------------------------------------------------------------------ SpecWindow
\* get_items_bounds applied to every enumerated tree of commits and deltas with
\* at least one node, selection, previous scroll offset, viewport height and
\* scroll padding, and applied again with the scroll offset it returned.

\* The heights of the nodes of a forest replaced by hs[name + 1].
RECURSIVE WithHeights(_, _)
WithHeights(children, hs) ==
    [i \in 1..Len(children) |->
        [name |-> children[i].name,
         height |-> hs[children[i].name + 1],
         children |-> WithHeights(children[i].children, hs)]]

\* Items are single lines or MaxHeight lines tall.
Heights == {1, MaxHeight}

WindowForests ==
    UNION {{WithHeights(f, hs) : f \in Forests(n, StackDepth, 0),
                                hs \in [1..n -> Heights]} : n \in 1..(MaxNodes - 1)}

\* The selections a caller may pass for a tree: none, any node, a stale address.
SelectionsOf(self) ==
    {None} \cup {Some(a) : a \in AddressesBelow(self) \cup {<<Len(self.children)>>}}

InitWindow ==
    /\ tree \in {[children |-> f, scroll_padding |-> p] :
                    f \in WindowForests, p \in 0..MaxPadding}
    /\ selected \in SelectionsOf(tree)
    /\ offset \in 0..len_descendants(tree)
    /\ op = "new"
    /\ arg \in 1..MaxCapacity
    /\ ret = <<>>

\* get_items_bounds(selected, offset, max_height) with max_height = arg
Call_get_items_bounds ==
    /\ op = "new"
    /\ op' = "get_items_bounds"
    /\ ret' = <<get_items_bounds(tree, selected, offset, arg)>>
    /\ UNCHANGED <<tree, selected, offset, arg>>

\* The same call with the first visible index it returned as the offset.
Call_get_items_bounds_again ==
    /\ op = "get_items_bounds"
    /\ ~ret[1].fault
    /\ op' = "get_items_bounds_again"
    /\ offset' = ret[1].first
    /\ ret' = Append(ret, get_items_bounds(tree, selected, ret[1].first, arg))
    /\ UNCHANGED <<tree, selected, arg>>

NextWindow ==
    \/ Call_get_items_bounds
    \/ Call_get_items_bounds_again

SpecWindow == InitWindow /\ [][NextWindow]_vars

\* ------------------------------------------------------------------ SpecLoops
\* get_items_bounds one loop iteration at a time.  op is the loop the call is
\* in, ret the locals: first_visible_index, last_visible_index,
\* height_from_offset, the iterator of the for loop, the selected offset, the
\* scroll padding and index_to_display; steps counts the loop tests made so far.

\* Item heights of the stepwise runs: empty items, single lines, MaxHeight lines.
LoopHeights == {0, 1, MaxHeight}

\* A flat list of n items with the heights hs.
RECURSIVE FlatList(_, _)
FlatList(hs, n) ==
    IF n = 0 THEN <<>>
    ELSE Append(FlatList(hs, n - 1),
                [name |-> n - 1, height |-> hs[n], children |-> <<>>])

\* Flat lists of one to MaxNodes - 1 items.
LoopForests ==
    UNION {{FlatList(hs, n) : hs \in [1..n -> LoopHeights]} : n \in 1..(MaxNodes - 1)}

\* One more loop test made.
Step(locals) == [locals EXCEPT !.steps = @ + 1]

\* Lists of one to MaxLines single-line items.
SingleLineLists == {FlatList([i \in 1..n |-> 1], n) : n \in 1..MaxLines}

\* A call on a short list of items of any height, or on a longer list of
\* single-line items scrolled to the top with the last item selected.
InitLoops ==
    /\ op = "new"
    /\ ret = <<>>
    /\ \/ /\ tree \in {[children |-> f, scroll_padding |-> p] :
                          f \in LoopForests, p \in 0..MaxPadding}
          /\ selected \in SelectionsOf(tree)
          /\ offset \in 0..len_descendants(tree)
          /\ arg \in 1..MaxCapacity
       \/ /\ tree \in {[children |-> f, scroll_padding |-> p] :
                          f \in SingleLineLists, p \in 0..MaxPadding}
          /\ selected = Some(new_at(Len(tree.children) - 1))
          /\ offset = 0
          /\ arg \in 1..Len(tree.children)

\* widget.rs 439-446: the offset is clamped, the window is empty at the offset.
Bounds_enter ==
    /\ op = "new"
    /\ LET clamped == Min(offset, saturating_sub(len_descendants(tree), 1))
       IN  ret' = [first |-> clamped, last |-> clamped, height |-> 0,
                   iter |-> TreeIter_skip(iter_descendants(tree), clamped),
                   sel |-> None, padding |-> 0, padded |-> None,
                   target |-> clamped,
                   steps |-> 0]
    /\ op' = "fit"
    /\ UNCHANGED <<tree, selected, offset, arg>>

\* widget.rs 450-457: one iteration of the for loop.
Bounds_fit ==
    /\ op = "fit"
    /\ LET r == TreeIter_next(ret.iter)
       IN  IF r[1] # None /\ ~(ret.height + height(r[1][1]) > arg)
           THEN /\ ret' = [Step(ret) EXCEPT !.height = @ + height(r[1][1]),
                                      !.last = @ + 1, !.iter = r[2]]
                /\ op' = "fit"
           ELSE /\ ret' = Step(ret)
                /\ op' = "apply"
    /\ UNCHANGED <<tree, selected, offset, arg>>

\* widget.rs 535-546: the entry of apply_scroll_padding_to_selected_index; it
\* returns None when the selection gives no offset.
Bounds_apply ==
    /\ op = "apply"
    /\ \E found \in {IF selected = None THEN None
                     ELSE find_offset_of_index(tree, selected[1])} :
           IF found = None
           THEN /\ ret' = Step(ret)
                /\ op' = "display"
           ELSE /\ ret' = [Step(ret) EXCEPT
                       !.sel = Some(Min(found[1][1],
                                  saturating_sub(len_descendants(tree), 1))),
                       !.padding = tree.scroll_padding]
                /\ op' = "padding"
    /\ UNCHANGED <<tree, selected, offset, arg>>

\* The padding used as configured, whether or not the items around the
\* selection fit.
Bounds_padding_unreduced ==
    /\ op = "padding"
    /\ ret' = [Step(ret) EXCEPT !.padded =
                   Some(padded_index(ret.sel[1], ret.padding, ret.first, ret.last,
                                     saturating_sub(len_descendants(tree), 1)))]
    /\ op' = "display"
    /\ UNCHANGED <<tree, selected, offset, arg>>

\* The padding kept when the items around the selection do not fit.
Bounds_padding_kept ==
    /\ op = "padding"
    /\ LET last_valid_index == saturating_sub(len_descendants(tree), 1)
       IN  IF /\ ret.padding > 0
              /\ ~(height_around(tree, saturating_sub(ret.sel[1], ret.padding),
                       Min(ret.sel[1] + ret.padding, last_valid_index)) <= arg)
           THEN /\ ret' = Step(ret)
                /\ op' = "padding"
           ELSE /\ ret' = [Step(ret) EXCEPT !.padded =
                       Some(padded_index(ret.sel[1], ret.padding, ret.first,
                                         ret.last, last_valid_index))]
                /\ op' = "display"
    /\ UNCHANGED <<tree, selected, offset, arg>>

\* widget.rs 547-571: one iteration of the padding-reduction loop; when it
\* ends, the padded offset is returned.
Bounds_padding ==
    /\ op = "padding"
    /\ LET last_valid_index == saturating_sub(len_descendants(tree), 1)
       IN  IF /\ ret.padding > 0
              /\ ~(height_around(tree, saturating_sub(ret.sel[1], ret.padding),
                       Min(ret.sel[1] + ret.padding, last_valid_index)) <= arg)
           THEN /\ ret' = [Step(ret) EXCEPT !.padding = @ - 1]
                /\ op' = "padding"
           ELSE /\ ret' = [Step(ret) EXCEPT !.padded =
                       Some(padded_index(ret.sel[1], ret.padding, ret.first,
                                         ret.last, last_valid_index))]
                /\ op' = "display"
    /\ UNCHANGED <<tree, selected, offset, arg>>

\* widget.rs 462-469: index_to_display is the padded offset, or the clamped
\* offset when apply_scroll_padding_to_selected_index returned None.
Bounds_display ==
    /\ op = "display"
    /\ ret' = [Step(ret) EXCEPT !.target =
                   IF ret.padded = None THEN ret.target ELSE ret.padded[1]]
    /\ op' = "forward"
    /\ UNCHANGED <<tree, selected, offset, arg>>

\* The forward expansion left at once.
Bounds_forward_none ==
    /\ op = "forward"
    /\ ret' = Step(ret)
    /\ op' = "backward"
    /\ UNCHANGED <<tree, selected, offset, arg>>

\* widget.rs 475-482: one iteration of the forward expansion up to its inner
\* loop; unwrap of an absent item panics.
Bounds_forward ==
    /\ op = "forward"
    /\ IF ret.target >= ret.last
       THEN LET item == get_descendant_infix(tree, ret.last)
            IN  IF item = None
                THEN ret' = Step(ret) /\ op' = "panic"
                ELSE /\ ret' = [Step(ret) EXCEPT !.height = @ + height(item[1]),
                                           !.last = @ + 1]
                     /\ op' = "hide_previous"
       ELSE ret' = Step(ret) /\ op' = "backward"
    /\ UNCHANGED <<tree, selected, offset, arg>>

\* The inner loop left without hiding an item.
Bounds_hide_previous_none ==
    /\ op = "hide_previous"
    /\ ret' = Step(ret)
    /\ op' = "forward"
    /\ UNCHANGED <<tree, selected, offset, arg>>

\* widget.rs 486-495: one iteration of the inner loop hiding leading items.
Bounds_hide_previous ==
    /\ op = "hide_previous"
    /\ IF ret.height > arg
       THEN LET item == get_descendant_infix(tree, ret.first)
            IN  IF item = None
                THEN ret' = Step(ret) /\ op' = "panic"
                ELSE /\ ret' = [Step(ret) EXCEPT
                            !.height = saturating_sub(@, height(item[1])),
                            !.first = @ + 1]
                     /\ op' = "hide_previous"
       ELSE ret' = Step(ret) /\ op' = "forward"
    /\ UNCHANGED <<tree, selected, offset, arg>>

\* The backward expansion left at once: the call returns.
Bounds_backward_none ==
    /\ op = "backward"
    /\ ret' = Step(ret)
    /\ op' = "returned"
    /\ UNCHANGED <<tree, selected, offset, arg>>

\* widget.rs 500-507 and 521: one iteration of the backward expansion up to its
\* inner loop; when the loop ends the call returns (first, last).
Bounds_backward ==
    /\ op = "backward"
    /\ IF ret.target < ret.first
       THEN LET item == get_descendant_infix(tree, ret.first - 1)
            IN  IF item = None
                THEN ret' = Step(ret) /\ op' = "panic"
                ELSE /\ ret' = [Step(ret) EXCEPT !.first = @ - 1,
                                           !.height = @ + height(item[1])]
                     /\ op' = "hide_next"
       ELSE ret' = Step(ret) /\ op' = "returned"
    /\ UNCHANGED <<tree, selected, offset, arg>>

\* widget.rs 510-518: one iteration of the inner loop hiding trailing items;
\* last_visible_index - 1 below zero is an overflow.
Bounds_hide_next ==
    /\ op = "hide_next"
    /\ IF ret.height > arg
       THEN IF ret.last = 0
            THEN ret' = Step(ret) /\ op' = "panic"
            ELSE LET item == get_descendant_infix(tree, ret.last - 1)
                 IN  IF item = None
                     THEN ret' = Step(ret) /\ op' = "panic"
                     ELSE /\ ret' = [Step(ret) EXCEPT
                                 !.last = @ - 1,
                                 !.height = saturating_sub(@, height(item[1]))]
                          /\ op' = "hide_next"
       ELSE ret' = Step(ret) /\ op' = "backward"
    /\ UNCHANGED <<tree, selected, offset, arg>>

NextLoops ==
    \/ Bounds_enter
    \/ Bounds_fit
    \/ Bounds_apply
    \/ Bounds_padding
    \/ Bounds_display
    \/ Bounds_forward
    \/ Bounds_hide_previous
    \/ Bounds_backward
    \/ Bounds_hide_next

SpecLoops == InitLoops /\ [][NextLoops]_vars

\* ------------------------------------------------------------------ SpecRender
\* Renders in a row of one tree whose items have different heights.

\* Trees of one to MaxNodes - 1 items of height 1 or MaxHeight.
RenderForests ==
    UNION {{WithHeights(f, hs) : f \in Forests(n, StackDepth, 0),
                                hs \in [1..n -> Heights]} : n \in 1..(MaxNodes - 1)}

\* A TreeState left by earlier frames: any selection, any offset.
InitRender ==
    /\ tree \in {[children |-> f, scroll_padding |-> p] :
                    f \in RenderForests, p \in 0..MaxPadding}
    /\ selected \in SelectionsOf(tree)
    /\ offset \in 0..len_descendants(tree)
    /\ op = "new"
    /\ arg = <<>>
    /\ ret = <<>>

NextRender == Render

SpecRender == InitRender /\ [][NextRender]_vars

\* ------------------------------------------------------------------ SpecIter
\* The three traversals of iter.rs taken one next() at a time: op names the
\* traversal, ret is its stack of work items, arg counts the items yielded.

InitIter ==
    /\ tree \in {Root(f) : f \in Shapes}
    /\ selected = None
    /\ offset = 0
    /\ op = "new"
    /\ arg = 0
    /\ ret = <<>>

Iter_new(name, stack) ==
    /\ op = "new"
    /\ op' = name
    /\ ret' = stack
    /\ UNCHANGED <<tree, selected, offset, arg>>

Iter_next(name, r) ==
    /\ op = name
    /\ ret' = r[2]
    /\ arg' = IF r[1] = None THEN arg ELSE arg + 1
    /\ UNCHANGED <<tree, selected, offset, op>>

TreeIter_new_from_call == Iter_new("TreeIter", TreeIter_new_from(tree))

TreeIter_next_call == Iter_next("TreeIter", TreeIter_next(ret))

TreeIterWithDepth_new_from_call ==
    Iter_new("TreeIterWithDepth", TreeIterWithDepth_new_from(tree))

TreeIterWithDepth_next_call ==
    Iter_next("TreeIterWithDepth", TreeIterWithDepth_next(ret))

TreeIterWithIndex_new_from_call ==
    Iter_new("TreeIterWithIndex", TreeIterWithIndex_new_from(tree))

TreeIterWithIndex_next_call ==
    Iter_next("TreeIterWithIndex", TreeIterWithIndex_next(ret))

NextIter ==
    \/ TreeIter_new_from_call
    \/ TreeIter_next_call
    \/ TreeIterWithDepth_new_from_call
    \/ TreeIterWithDepth_next_call
    \/ TreeIterWithIndex_new_from_call
    \/ TreeIterWithIndex_next_call

SpecIter == InitIter /\ [][NextIter]_vars

\* ------------------------------------------------------------------ SpecToggle
\* Model::toggle_deltas called again and again on a loaded stack, with any
\* commit index.  arg holds the index and the stack before the call, ret the
\* result.

\* A commit with one parent whose diff touches no file or MaxFiles files, or a
\* merge commit.
CommitKinds ==
    {[parent_count |-> 1, files |-> f] : f \in {0, MaxFiles}}
        \cup {[parent_count |-> 2, files |-> 0]}

\* The commits between the merge base and HEAD, oldest first.
Repos == UNION {[1..n -> CommitKinds] : n \in 0..MaxCommits}

\* The stack as load_commits_since_merge_base_with leaves it.
Loaded(repo) == [children |-> [k \in 1..Len(repo) |-> CommitNode_from(repo[k])]]

InitToggle ==
    /\ tree \in {Loaded(repo) : repo \in Repos}
    /\ selected = None
    /\ offset = 0
    /\ op = "new"
    /\ arg = <<>>
    /\ ret = <<>>

Model_toggle_deltas ==
    \E commit_index \in 0..MaxCommits, repo_ok \in BOOLEAN :
        \E r \in {toggle_deltas(tree, commit_index, repo_ok)} :
            /\ tree' = r.stack
            /\ op' = "toggle_deltas"
            /\ arg' = [commit_index |-> commit_index, stack |-> tree]
            /\ ret' = r.result
            /\ UNCHANGED <<selected, offset>>

NextToggle == Model_toggle_deltas

SpecToggle == InitToggle /\ [][NextToggle]_vars

\* ------------------------------------------------------------------ SpecMain
\* stack::main: with_terminal around the loop of draw, front-of-queue test and
\* event read.  tree is model.stack, selected and offset are model.tree, op is
\* the position in main, arg the environment (the repository's commits and the
\* inner area of the tree block), ret the controller's queue, the terminal
\* mode, the result main is about to return, and the message the last draw
\* popped with the selection it found.

\* Key events: code, whether Ctrl is held, whether it is a press (or a release).
Key(code, ctrl, press) == [code |-> code, ctrl |-> ctrl, press |-> press]

Events ==
    {Key(code, FALSE, TRUE) : code \in {"Up", "Down", " ", "q", "Left"}}
        \cup {Key("q", FALSE, FALSE), Key("c", TRUE, TRUE), Key("x", TRUE, FALSE)}

\* The tree area inside its block: no rows, or MaxCapacity - 1 or MaxCapacity.
MainAreas ==
    {[width |-> 1, height |-> h] : h \in {0, MaxCapacity - 1, MaxCapacity}}

InitMain ==
    /\ tree = StackTree_new
    /\ selected = None
    /\ offset = 0
    /\ op = "new"
    /\ arg \in [repo : Repos, area : MainAreas]
    /\ ret = <<>>

\* The controller as the model's variables hold it.
Controller == [model |-> [stack |-> tree, tree |-> TreeState], queue |-> ret.queue]

\* with_terminal: ratatui::init(); main: the controller is built and Load queued.
Main_init ==
    /\ op = "new"
    /\ op' = "draw"
    /\ ret' = [queue |-> <<Message_Load>>, terminal |-> "raw", result |-> "Ok",
               message |-> None, before |-> None]
    /\ UNCHANGED <<tree, selected, offset, arg>>

\* The front message is Load: the repository is read by this draw.
Loading == ret.queue # <<>> /\ Head(ret.queue) = Message_Load

\* terminal.draw(|frame| result = controller.draw(frame))?; result?;
\* the terminal can fail to flush after the closure ran.
Main_draw ==
    /\ op = "draw"
    /\ \E io_ok \in BOOLEAN,
          resolved \in IF Loading THEN BOOLEAN ELSE {TRUE},
          walked \in IF Loading THEN 0..Len(arg.repo) ELSE {Len(arg.repo)},
          repo_ok \in IF Loading THEN {TRUE} ELSE BOOLEAN :
          \E d \in {Controller_draw(Controller, arg.repo, arg.area,
                                    resolved, walked, repo_ok)} :
              /\ tree' = d.c.model.stack
              /\ selected' = d.c.model.tree.selected
              /\ offset' = d.c.model.tree.offset
              /\ ret' = [ret EXCEPT
                            !.queue = d.c.queue,
                            !.result = IF io_ok THEN d.result ELSE "Err",
                            !.message = IF ret.queue = <<>> THEN None
                                        ELSE Some(Head(ret.queue)),
                            !.before = selected]
              /\ op' = IF io_ok /\ d.result = "Ok" THEN "front" ELSE "restore"
    /\ UNCHANGED arg

\* The loop reading an event whatever the queue holds.
Main_front_always_reads ==
    /\ op = "front"
    /\ \E read_ok \in BOOLEAN, event \in Events :
          IF read_ok
          THEN /\ ret' = [ret EXCEPT !.queue = @ \o <<Message_Terminal(event)>>,
                                     !.message = None, !.before = None]
               /\ op' = "draw"
          ELSE /\ ret' = [ret EXCEPT !.result = "Err"]
               /\ op' = "restore"
    /\ UNCHANGED <<tree, selected, offset, arg>>

\* match controller.queue.front(): Exit breaks the loop, an empty queue reads
\* one terminal event (the read can fail), anything else goes on to draw.
Main_front ==
    /\ op = "front"
    /\ IF ret.queue # <<>> /\ Head(ret.queue) = Message_Exit
       THEN /\ ret' = ret
            /\ op' = "restore"
       ELSE IF ret.queue = <<>>
       THEN \E read_ok \in BOOLEAN, event \in Events :
               IF read_ok
               THEN /\ ret' = [ret EXCEPT !.queue = <<Message_Terminal(event)>>,
                                          !.message = None, !.before = None]
                    /\ op' = "draw"
               ELSE /\ ret' = [ret EXCEPT !.result = "Err"]
                    /\ op' = "restore"
       ELSE /\ ret' = [ret EXCEPT !.message = None, !.before = None]
            /\ op' = "draw"
    /\ UNCHANGED <<tree, selected, offset, arg>>

\* with_terminal: ratatui::restore() and the result is returned.
Main_restore ==
    /\ op = "restore"
    /\ op' = "returned"
    /\ ret' = [ret EXCEPT !.terminal = "restored"]
    /\ UNCHANGED <<tree, selected, offset, arg>>

NextMain ==
    \/ Main_init
    \/ Main_draw
    \/ Main_front
    \/ Main_restore

SpecMain == InitMain /\ [][NextMain]_vars

\* ------------------------------------------------------------------ SpecApp
\* app::main with App::run: the stack is loaded, the terminal initialised, and
\* the loop draws the view and reads one event.  tree is the view's Tree,
\* selected and offset its TreeState, op the position in main, arg the tree
\* area, ret the terminal mode and the result main is about to return.
\* App::load and App::toggle_commit are not in the source: the load is an
\* outcome, and the space key is left out of the events.

AppEvents ==
    {Key(code, FALSE, TRUE) : code \in {"Up", "Down", "Left", "q", "x"}}
        \cup {Key("c", TRUE, TRUE), Key("d", TRUE, TRUE), Key("q", FALSE, FALSE)}

InitApp ==
    /\ tree \in Trees
    /\ selected = None
    /\ offset = 0
    /\ op = "new"
    /\ arg \in MainAreas
    /\ ret = [terminal |-> "cooked", result |-> "Ok"]

\* app.load(base)?: an error returns before the terminal is touched.
App_load ==
    /\ op = "new"
    /\ \E loaded \in BOOLEAN :
          IF loaded
          THEN op' = "init" /\ ret' = ret
          ELSE op' = "returned" /\ ret' = [ret EXCEPT !.result = "Err"]
    /\ UNCHANGED <<tree, selected, offset, arg>>

\* ratatui::init(), and the start of App::run: the first commit is selected.
App_init ==
    /\ op = "init"
    /\ op' = "draw"
    /\ ret' = [ret EXCEPT !.terminal = "raw"]
    /\ selected' = IF is_empty(tree) THEN None ELSE Some(<<0>>)
    /\ UNCHANGED <<tree, offset, arg>>

\* terminal.draw(|frame| view.render(..))?
App_draw ==
    /\ op = "draw"
    /\ \E io_ok \in BOOLEAN :
          \E r \in {render_ref(tree, arg, TreeState)} :
              /\ selected' = r.state.selected
              /\ offset' = r.state.offset
              /\ IF io_ok
                 THEN op' = "read" /\ ret' = ret
                 ELSE op' = "run_returned" /\ ret' = [ret EXCEPT !.result = "Err"]
    /\ UNCHANGED <<tree, arg>>

\* match crossterm::event::read()?: q, Ctrl+C and Ctrl+D break the loop, the
\* arrow keys move the selection.
App_read ==
    /\ op = "read"
    /\ \E read_ok \in BOOLEAN, key \in AppEvents :
          IF ~read_ok
          THEN /\ op' = "run_returned"
               /\ ret' = [ret EXCEPT !.result = "Err"]
               /\ UNCHANGED selected
          ELSE IF key.press /\ (key.code = "q" \/ (key.code \in {"c", "d"} /\ key.ctrl))
          THEN /\ op' = "run_returned"
               /\ UNCHANGED <<ret, selected>>
          ELSE /\ op' = "draw"
               /\ ret' = ret
               /\ selected' =
                     IF ~key.press THEN selected
                     ELSE IF key.code = "Left" THEN select_parent(tree, selected)
                     ELSE IF key.code = "Up" THEN select_up(tree, selected)
                     ELSE IF key.code = "Down" THEN select_down(tree, selected)
                     ELSE selected
    /\ UNCHANGED <<tree, offset, arg>>

\* app.run(&mut terminal)?; ratatui::restore(); return Ok(()): an error of
\* run is returned at the question mark.
App_return ==
    /\ op = "run_returned"
    /\ op' = "returned"
    /\ ret' = IF ret.result = "Err" THEN ret
              ELSE [ret EXCEPT !.terminal = "restored"]
    /\ UNCHANGED <<tree, selected, offset, arg>>

NextApp ==
    \/ App_load
    \/ App_init
    \/ App_draw
    \/ App_read
    \/ App_return

SpecApp == InitApp /\ [][NextApp]_vars

\* ------------------------------------------------------------------ claims

\* C1: round trip.  For every tree and every address a that resolves to a node,
\* find_offset_of_index(a) is Some((k, node)) and find_index_of_offset(k) is
\* Some((a, node)) with the same node, the one get_descendant(a) yields.
C1_RoundTrip ==
    (op = "find_offset_of_index" /\ get_descendant(tree, arg) # None) =>
        /\ ret # None
        /\ ret[1][2] = get_descendant(tree, arg)[1]
        /\ find_index_of_offset(tree, ret[1][1]) = Some(<<arg, ret[1][2]>>)

C1_Witness ==
    /\ op = "find_offset_of_index"
    /\ get_descendant(tree, arg) # None
    /\ Len(arg) = 3
    /\ ret # None
    /\ ret[1][1] = 3

\* C2: for every valid address a, find_next_relative_of(a) is the node at linear
\* pre-order offset offset(a)+1: a's first child if it has one, otherwise the next
\* sibling of the nearest ancestor-or-self that has one; it is None exactly when a
\* is the pre-order-last node.
C2_NextRelative ==
    (op = "find_next_relative_of" /\ get_descendant(tree, arg) # None) =>
        LET n == Cardinality(AddressesBelow(tree))
            k == PreorderOffset(tree, arg)
            expected ==
                IF NodeAt(tree, arg).children # <<>> THEN Some(Append(arg, 0))
                ELSE NextSiblingUpward(tree, arg)
        IN  /\ (ret = None) <=> (k = n - 1)
            /\ ret # None =>
                /\ Resolves(tree, ret[1][1])
                /\ PreorderOffset(tree, ret[1][1]) = k + 1
                /\ ret[1][2] = NodeAt(tree, ret[1][1])
                /\ Some(ret[1][1]) = expected

C2_Witness ==
    /\ op = "find_next_relative_of"
    /\ Len(arg) = 3
    /\ ret # None
    /\ Len(ret[1][1]) = 1

\* C3: for every valid address a, find_previous_relative_of(a) is the node at
\* linear pre-order offset offset(a)-1: the last descendant of a's previous
\* sibling if there is one, otherwise a's parent; it is None exactly when a is
\* the first node [0].
C3_PreviousRelative ==
    (op = "find_previous_relative_of" /\ get_descendant(tree, arg) # None) =>
        LET k == PreorderOffset(tree, arg)
            expected ==
                IF arg[Len(arg)] > 0
                THEN Some(LastBelow(tree, [arg EXCEPT ![Len(arg)] = arg[Len(arg)] - 1]))
                ELSE IF Len(arg) > 1 THEN Some(SubSeq(arg, 1, Len(arg) - 1))
                ELSE None
        IN  /\ (ret = None) <=> (arg = <<0>>)
            /\ ret # None =>
                /\ Resolves(tree, ret[1][1])
                /\ PreorderOffset(tree, ret[1][1]) = k - 1
                /\ ret[1][2] = NodeAt(tree, ret[1][1])
                /\ Some(ret[1][1]) = expected

C3_Witness ==
    /\ op = "find_previous_relative_of"
    /\ Len(arg) = 2
    /\ arg[2] > 0
    /\ ret # None
    /\ Len(ret[1][1]) = 3

\* C4: find_next_relative_of and find_previous_relative_of are mutual inverses:
\* for every address a (valid or not) with find_next_relative_of(a) = Some(b),
\* find_previous_relative_of(b) = Some(a), with a's node.
C4_MutualInverse ==
    (op = "find_next_relative_of" /\ ret # None) =>
        /\ get_descendant(tree, arg) # None
        /\ find_previous_relative_of(tree, ret[1][1])
               = Some(<<arg, get_descendant(tree, arg)[1]>>)

C4_Witness ==
    /\ op = "find_next_relative_of"
    /\ ret # None
    /\ Len(arg) = 2
    /\ Len(ret[1][1]) = 1
    /\ find_previous_relative_of(tree, ret[1][1]) # None

\* C5: find_nearest_to(origin) is Some for every tree with at least one node and
\* every origin, however stale or out of range, and it is origin itself, with
\* origin's node, whenever origin already resolves to a node.
C5_NearestIsSome ==
    (op = "find_nearest_to" /\ ~is_empty(tree)) =>
        /\ ret # None
        /\ get_descendant(tree, arg) # None =>
               ret = Some(<<arg, get_descendant(tree, arg)[1]>>)

C5_Witness ==
    /\ op = "find_nearest_to"
    /\ ~is_empty(tree)
    /\ get_descendant(tree, arg) # None
    /\ Len(arg) = 2
    /\ arg[2] = 1
    /\ ret # None

\* C6: find_nearest_to clamps depth by depth.  It is None on a childless root;
\* otherwise the result r is no longer than origin, each r[i] is origin[i]
\* clamped to the last child offset of the cursor reached by r[1..i-1] (the root
\* for i = 1), r is shorter than origin only when the node at r has no children,
\* and r resolves to the returned node.  On root[a[b,c], x[y,z]]:
\* [0,5] -> [0,1], [0,0,0] -> [0,0], [2] -> [1].
C6_NearestClamps ==
    op = "find_nearest_to" =>
        IF is_empty(tree) THEN ret = None
        ELSE /\ ret # None
             /\ LET r == ret[1][1]
                    cursor(i) == IF i = 1 THEN tree ELSE NodeAt(tree, SubSeq(r, 1, i - 1))
                IN  /\ Len(r) >= 1
                    /\ Len(r) <= Len(arg)
                    /\ \A i \in 1..Len(r) :
                          /\ Len(cursor(i).children) > 0
                          /\ r[i] = Min(arg[i], Len(cursor(i).children) - 1)
                    /\ Len(r) < Len(arg) => NodeAt(tree, r).children = <<>>
                    /\ get_descendant(tree, r) = Some(ret[1][2])
                    /\ ret[1][2] = NodeAt(tree, r)
                    /\ tree.children = TestTree =>
                          /\ arg = <<0, 5>> => r = <<0, 1>>
                          /\ arg = <<0, 0, 0>> => r = <<0, 0>>
                          /\ arg = <<2>> => r = <<1>>

C6_Witness ==
    /\ op = "find_nearest_to"
    /\ tree.children = TestTree
    /\ arg = <<0, 5>>
    /\ ret # None
    /\ ret[1][1] = <<0, 1>>

\* C7: windowing keeps the selection visible.  For a tree with at least one
\* node, any previous scroll offset, a selection at the linear offset s and a
\* scroll padding p such that the combined height of the 2p+1 items around s is
\* at most the capacity, get_items_bounds returns a window with
\* first <= s < last.
C7_SelectionVisible ==
    (/\ op \in {"get_items_bounds", "get_items_bounds_again"}
     /\ selected # None
     /\ Resolves(tree, selected[1])
     /\ HeightAround(tree, PreorderOffset(tree, selected[1]),
                     tree.scroll_padding) <= arg)
        => \A i \in 1..Len(ret) :
              /\ ~ret[i].fault
              /\ ret[i].first <= PreorderOffset(tree, selected[1])
              /\ PreorderOffset(tree, selected[1]) < ret[i].last

\* The selection lies before the window that fits at the previous offset, with
\* a padding of at least one item, and the window has moved back to show it.
C7_Witness ==
    /\ op = "get_items_bounds"
    /\ selected # None
    /\ Resolves(tree, selected[1])
    /\ tree.scroll_padding >= 1
    /\ HeightAround(tree, PreorderOffset(tree, selected[1]),
                    tree.scroll_padding) <= arg
    /\ PreorderOffset(tree, selected[1]) < offset
    /\ offset < Cardinality(AddressesBelow(tree))
    /\ ret[1].first < offset
    /\ ret[1].first <= PreorderOffset(tree, selected[1])
    /\ PreorderOffset(tree, selected[1]) < ret[1].last

\* C8: windowing is idempotent.  When get_items_bounds(selection, offset,
\* capacity) returns (first, last), the call on the same tree with the same
\* selection and capacity and with first as the previous offset returns the
\* same pair (first, last), whatever the item heights.
C8_Idempotent ==
    op = "get_items_bounds_again"
        => /\ ~ret[2].fault
           /\ ret[2].first = ret[1].first
           /\ ret[2].last = ret[1].last

\* C9: absence leaves the selection unchanged.  When the selection is Some(a)
\* and the navigation target does not exist (down at the pre-order-last node,
\* up at the first node, parent at a root-level node), the stored selection is
\* still Some(a) after the call, for Tree::select_up, select_down and
\* select_parent and for the Controller's select_up and select_down.
C9_AbsenceKeepsSelection ==
    (/\ op \in {"select_up", "select_down", "select_parent",
                "Controller_select_up", "Controller_select_down"}
     /\ arg.selected # None
     /\ Resolves(tree, arg.selected[1]))
        => LET a == arg.selected[1]
               s == PreorderOffset(tree, a)
               absent ==
                   \/ /\ op \in {"select_up", "Controller_select_up"}
                      /\ s = 0
                   \/ /\ op \in {"select_down", "Controller_select_down"}
                      /\ s = Cardinality(AddressesBelow(tree)) - 1
                   \/ /\ op = "select_parent"
                      /\ Len(a) = 1
           IN  absent => selected = Some(a)

\* C10: render re-validates the stored selection.  After render_ref on a tree
\* with at least one node and a non-empty area the selection is None if it was
\* None and otherwise the address find_nearest_to gives for the previous
\* selection; and after any render on a non-empty area a Some selection
\* resolves to a node of the rendered tree and has a linear offset.
C10_RenderRevalidates ==
    (op = "render_ref" /\ ~Rect_is_empty(arg.area))
        => /\ AddressesBelow(tree) # {}
                => IF arg.selected = None THEN selected = None
                   ELSE /\ find_nearest_to(tree, arg.selected[1]) # None
                        /\ selected =
                             Some(find_nearest_to(tree, arg.selected[1])[1][1])
           /\ selected # None
                => /\ Resolves(tree, selected[1])
                   /\ get_descendant(tree, selected[1])
                        = Some(NodeAt(tree, selected[1]))
                   /\ find_offset_of_index(tree, selected[1]) # None
                   /\ find_offset_of_index(tree, selected[1])[1][1]
                        = PreorderOffset(tree, selected[1])

\* A render of a replaced tree in which the previous selection names no node:
\* the selection has been moved to a node of the tree.
C10_Witness ==
    /\ op = "render_ref"
    /\ ~Rect_is_empty(arg.area)
    /\ arg.selected # None
    /\ Len(arg.selected[1]) >= 2
    /\ ~Resolves(tree, arg.selected[1])
    /\ selected # None
    /\ selected # arg.selected
    /\ Resolves(tree, selected[1])

\* C11: every query that takes an address (get_descendant,
\* find_offset_of_index, find_last_descendant_in, find_previous_sibling_of,
\* find_next_sibling_of, find_previous_relative_of, find_next_relative_of,
\* find_parent_of) returns None whenever the address does not resolve to a node
\* of the tree, whichever offset is out of range.
C11_AbsentAddressGivesNone ==
    (/\ op \in {"get_descendant", "find_offset_of_index",
                "find_last_descendant_in", "find_previous_sibling_of",
                "find_next_sibling_of", "find_previous_relative_of",
                "find_next_relative_of", "find_parent_of"}
     /\ ~Resolves(tree, arg))
        => ret = None

\* C12: address order equals pre-order.  TreeIndex comparison is lexicographic
\* with a proper prefix before its extensions; for two valid addresses a < b of
\* one tree find_offset_of_index(a) < find_offset_of_index(b); and the
\* traversal with addresses yields strictly increasing addresses.
C12_AddressOrderIsPreorder ==
    op = "iter_descendants_with_index"
        => /\ \A k \in 1..Len(ret) :
                LET b == ret[k][1]
                IN  /\ (cmp(arg, b) = "Less") = Precedes(arg, b)
                    /\ (cmp(arg, b) = "Equal") = (arg = b)
                    /\ (cmp(arg, b) = "Greater") = Precedes(b, arg)
                    /\ (Resolves(tree, arg) /\ cmp(arg, b) = "Less")
                          => /\ find_offset_of_index(tree, arg) # None
                             /\ find_offset_of_index(tree, b) # None
                             /\ find_offset_of_index(tree, arg)[1][1]
                                  < find_offset_of_index(tree, b)[1][1]
           /\ \A k \in 1..(Len(ret) - 1) : cmp(ret[k][1], ret[k + 1][1]) = "Less"
           /\ {ret[k][1] : k \in 1..Len(ret)} = AddressesBelow(tree)

\* A valid address compared with a yielded address it is a proper prefix of,
\* and with yielded addresses on either side of it.
C12_Witness ==
    /\ op = "iter_descendants_with_index"
    /\ Resolves(tree, arg)
    /\ \E k \in 1..Len(ret) :
          /\ IsPrefix(arg, ret[k][1])
          /\ arg # ret[k][1]
          /\ cmp(arg, ret[k][1]) = "Less"
    /\ \E k \in 1..Len(ret) : cmp(arg, ret[k][1]) = "Greater"
    /\ \E k \in 1..Len(ret) :
          /\ ~IsPrefix(arg, ret[k][1])
          /\ cmp(arg, ret[k][1]) = "Less"

\* C13: iter_descendants yields every non-root node exactly once, in pre-order
\* (a node before its descendants, a node's whole subtree before its next
\* sibling), yields nothing for a childless root, and after the last node
\* every further next() returns None.
C13_IterDescendantsIsPreorder ==
    op = "iter_descendants"
        => /\ Len(ret.items) = Cardinality(AddressesBelow(tree))
           /\ ret.items = PreorderNodes(tree)
           /\ tree.children = <<>> => ret.items = <<>>
           /\ ret.further = <<None, None>>

\* A traversal that descends below a first child and then continues with that
\* child's next sibling.
C13_Witness ==
    /\ op = "iter_descendants"
    /\ Resolves(tree, <<0, 0, 0>>)
    /\ Resolves(tree, <<0, 1>>)
    /\ Len(ret.items) = 4
    /\ ret.items[3] = NodeAt(tree, <<0, 0, 0>>)
    /\ ret.items[4] = NodeAt(tree, <<0, 1>>)
    /\ ret.further = <<None, None>>

\* C14: the three traversals agree.  iter_descendants_with_depth and
\* iter_descendants_with_index yield the node sequence of iter_descendants;
\* the k-th yielded address resolves via get_descendant to the k-th yielded
\* node, and the k-th yielded depth is that address's length minus 1.
C14_TraversalsAgree ==
    op = "iter_descendants_with_depth"
        => LET plain == TreeIter_collect(iter_descendants(tree))
               indexed ==
                   TreeIterWithIndex_collect(iter_descendants_with_index(tree))
           IN  /\ Len(ret) = Len(plain)
               /\ Len(indexed) = Len(plain)
               /\ \A k \in 1..Len(plain) :
                     /\ ret[k][2] = plain[k]
                     /\ indexed[k][2] = plain[k]
                     /\ get_descendant(tree, indexed[k][1]) = Some(plain[k])
                     /\ NodeAt(tree, indexed[k][1]) = plain[k]
                     /\ ret[k][1] = Len(indexed[k][1]) - 1

\* A traversal that yields depths 0, 1, 2 and then returns to depth 0.
C14_Witness ==
    /\ op = "iter_descendants_with_depth"
    /\ Len(ret) = 4
    /\ ret[1][1] = 0
    /\ ret[2][1] = 1
    /\ ret[3][1] = 2
    /\ ret[4][1] = 0
    /\ ret[4][2] = NodeAt(tree, <<1>>)

\* C15: get_child(i) is Some exactly when i is below the number of children,
\* and get_descendant(a) is Some exactly when every offset of a is in range
\* along its path from the root; an address that leaves the tree anywhere,
\* including one that continues below a leaf, gives None.
C15_ResolveOrNone ==
    /\ op = "get_child"
          => /\ (ret # None) = (first(arg) < Len(tree.children))
             /\ ret # None => ret = Some(tree.children[first(arg) + 1])
    /\ op = "get_descendant"
          => /\ (ret # None) = Resolves(tree, arg)
             /\ ret # None => ret = Some(NodeAt(tree, arg))
             /\ \A n \in 1..Len(arg) :
                   ~Resolves(tree, SubSeq(arg, 1, n)) => ret = None

\* get_descendant of an address that continues below a leaf.
C15_Witness ==
    /\ op = "get_descendant"
    /\ Len(arg) = 3
    /\ Resolves(tree, SubSeq(arg, 1, 2))
    /\ NodeAt(tree, SubSeq(arg, 1, 2)).children = <<>>
    /\ arg[3] = 0
    /\ ret = None

\* C16: find_offset_of_index(a) returns Some(k), with k the number of nodes
\* that precede a in pre-order, exactly when a resolves to a node; for an
\* absent address (an offset past the end of a branch, a path below a leaf,
\* any address on a childless root) it returns None and not the offset of a
\* neighbouring node.
C16_OffsetOfIndex ==
    op = "find_offset_of_index"
        => /\ (ret # None) = Resolves(tree, arg)
           /\ Resolves(tree, arg)
                => ret = Some(<<PreorderOffset(tree, arg), NodeAt(tree, arg)>>)
           /\ tree.children = <<>> => ret = None

\* An absent address with nodes of the tree on both sides of it in address
\* order.
C16_Witness ==
    /\ op = "find_offset_of_index"
    /\ ~Resolves(tree, arg)
    /\ \E b \in AddressesBelow(tree) : Precedes(b, arg)
    /\ \E b \in AddressesBelow(tree) : Precedes(arg, b)
    /\ ret = None

\* C17: find_index_of_offset(k) and get_descendant_infix(k) are Some exactly
\* when k is below the number of non-root nodes (len_descendants), they return
\* the same node, and find_offset_of_index(find_index_of_offset(k)) is k; for
\* k at or past that count they return None.
C17_IndexOfOffset ==
    LET k == first(arg)
        n == Cardinality(AddressesBelow(tree))
    IN  /\ op = "find_index_of_offset"
              => /\ len_descendants(tree) = n
                 /\ (ret # None) = (k < n)
                 /\ k < n
                      => /\ ret = Some(<<AddressAt(tree, k),
                                         NodeAt(tree, AddressAt(tree, k))>>)
                         /\ get_descendant_infix(tree, k) = Some(ret[1][2])
                         /\ find_offset_of_index(tree, ret[1][1])
                              = Some(<<k, ret[1][2]>>)
        /\ op = "get_descendant_infix"
              => /\ (ret # None) = (k < n)
                 /\ k < n => ret = Some(PreorderNodes(tree)[k + 1])

\* The last offset of a tree whose last node is nested, and the first offset
\* past the end of a tree.
C17_Witness ==
    /\ op = "find_index_of_offset"
    /\ first(arg) = Cardinality(AddressesBelow(tree)) - 1
    /\ first(arg) >= 2
    /\ ret # None
    /\ Len(ret[1][1]) >= 2
    /\ find_index_of_offset(tree, first(arg) + 1) = None

\* C18: find_parent_of(a), for the address a of a node, returns a with its
\* last offset removed together with the node at that address when a has two
\* or more offsets, and None when a is a single root-level offset; so
\* Tree::select_parent moves a nested selection to its parent and leaves a
\* root-level selection unchanged.
C18_ParentOf ==
    LET parent == SubSeq(arg, 1, Len(arg) - 1)
    IN  /\ (op = "find_parent_of" /\ Len(arg) = 1) => ret = None
        /\ (op = "find_parent_of" /\ Len(arg) >= 2 /\ Resolves(tree, arg))
              => ret = Some(<<parent, NodeAt(tree, parent)>>)
        /\ (op = "Tree::select_parent" /\ Len(arg) = 1) => ret = Some(arg)
        /\ (op = "Tree::select_parent" /\ Len(arg) >= 2 /\ Resolves(tree, arg))
              => ret = Some(parent)

\* The parent of a node two levels below the root level.
C18_Witness ==
    /\ op = "find_parent_of"
    /\ Len(arg) = 3
    /\ Resolves(tree, arg)
    /\ ret # None
    /\ Len(ret[1][1]) = 2
    /\ ret[1][2] = NodeAt(tree, ret[1][1])

\* C19: find_first_child returns offset 0 with the child at offset 0, and
\* find_last_child returns the last valid offset (number of children - 1) with
\* the child at that same offset; on a node without children both return None
\* without any fault.
C19_FirstAndLastChild ==
    LET n == Len(tree.children)
    IN  /\ op = "find_first_child"
              => ret = IF n = 0 THEN None ELSE Some(<<0, tree.children[1]>>)
        /\ op = "find_last_child"
              => /\ ~ret.fault
                 /\ ret.value = IF n = 0 THEN None
                                ELSE Some(<<n - 1, tree.children[n]>>)

\* C20: find_last_descendant_in(a), for a valid address a, returns a extended
\* by repeatedly taking the last child until a leaf is reached: the
\* pre-order-last node of a's subtree, whose linear offset is offset(a) plus
\* the number of descendants of the node at a.  find_last_descendant() returns
\* the final node of the whole traversal, and None on a childless root.
C20_LastDescendant ==
    /\ (op = "find_last_descendant_in" /\ Resolves(tree, arg))
          => /\ ret = Some(<<LastBelow(tree, arg),
                             NodeAt(tree, LastBelow(tree, arg))>>)
             /\ IsPrefix(arg, ret[1][1])
             /\ ret[1][2].children = <<>>
             /\ PreorderOffset(tree, ret[1][1])
                  = PreorderOffset(tree, arg)
                      + Cardinality(AddressesBelow(NodeAt(tree, arg)))
             /\ find_offset_of_index(tree, ret[1][1])
                  = Some(<<PreorderOffset(tree, arg)
                             + len_descendants(NodeAt(tree, arg)),
                           ret[1][2]>>)
    /\ op = "find_last_descendant"
          => IF tree.children = <<>> THEN ret = None
             ELSE LET n == Cardinality(AddressesBelow(tree))
                  IN  ret = Some(<<AddressAt(tree, n - 1),
                                   PreorderNodes(tree)[n]>>)

\* The last descendant of a node with two children, found two levels below it
\* through its last child.
C20_Witness ==
    /\ op = "find_last_descendant_in"
    /\ Resolves(tree, arg)
    /\ Len(NodeAt(tree, arg).children) = 2
    /\ ret # None
    /\ Len(ret[1][1]) = Len(arg) + 2
    /\ ret[1][1][Len(arg) + 1] = 1

\* C21: find_previous_sibling_of(a) / find_next_sibling_of(a), for the address
\* a of a node, return a with only its final offset decremented / incremented
\* (and the node there), exactly when that new offset is within the range of
\* the parent's children, the root being the parent of a root-level address;
\* otherwise they return None.
C21_SiblingOf ==
    LET n == Len(arg)
    IN  /\ (op = "find_previous_sibling_of" /\ Resolves(tree, arg))
              => /\ (ret # None) = (arg[n] >= 1)
                 /\ ret # None
                      => /\ ret[1][1] = [arg EXCEPT ![n] = arg[n] - 1]
                         /\ ret[1][2] = SiblingsOf(tree, arg)[arg[n]]
        /\ (op = "find_next_sibling_of" /\ Resolves(tree, arg))
              => /\ (ret # None) = (arg[n] + 1 < Len(SiblingsOf(tree, arg)))
                 /\ ret # None
                      => /\ ret[1][1] = [arg EXCEPT ![n] = arg[n] + 1]
                         /\ ret[1][2] = SiblingsOf(tree, arg)[arg[n] + 2]

\* The next sibling of a nested node, below a parent that is not the first
\* child of the root.
C21_Witness ==
    /\ op = "find_next_sibling_of"
    /\ Resolves(tree, arg)
    /\ Len(arg) = 2
    /\ arg[1] = 1
    /\ ret # None
    /\ ret[1][1] = <<1, arg[2] + 1>>

\* C22: address non-emptiness is an invariant of every operation.  Every
\* address produced from a non-empty address by push/pushed, pop/popped,
\* splice/spliced, floor/floored or by index2 TreeIndex::parent / rest has at
\* least one offset; pop on a single-offset address returns None and leaves it
\* unchanged; index2 TreeIndex::new rejects an empty slice with None.
C22_AddressNeverEmpty ==
    /\ op \in {"push", "pop", "splice", "floor"} => Len(arg) >= 1
    /\ op \in {"pushed", "popped", "spliced", "floored",
               "TreeIndex2::parent", "TreeIndex2::rest"}
          => (ret.value # None => Len(ret.value[1]) >= 1)
    /\ (op = "pop" /\ Len(ret.self) = 1)
          => (ret.value = None /\ arg = ret.self)
    /\ op = "TreeIndex2::new" => (ret.value = None) = (ret.self = <<>>)

\* C23: splice(k, x) on an address of length n yields an address of length
\* k+1 whose first min(k, n) offsets are the original ones, whose positions
\* n..k-1 (if any) are 0, and whose last offset is x; floor(k) yields an
\* address of length k+1 keeping the first min(k+1, n) offsets and zero-padding
\* the rest.  spliced/floored return this value and leave the receiver
\* unchanged.
C23_SpliceAndFloor ==
    /\ op \in {"splice", "spliced"}
          => LET a == ret.self
                 k == ret.args[1]
                 x == ret.args[2]
                 r == IF op = "splice" THEN arg ELSE ret.value[1]
             IN  /\ Len(r) = k + 1
                 /\ \A j \in 1..k : r[j] = IF j <= Len(a) THEN a[j] ELSE 0
                 /\ r[k + 1] = x
                 /\ op = "spliced" => arg = a
    /\ op \in {"floor", "floored"}
          => LET a == ret.self
                 k == ret.args[1]
                 r == IF op = "floor" THEN arg ELSE ret.value[1]
             IN  /\ Len(r) = k + 1
                 /\ \A j \in 1..(k + 1) : r[j] = IF j <= Len(a) THEN a[j] ELSE 0
                 /\ op = "floored" => arg = a

\* spliced at a place two past the end of an address: two zeros are padded in
\* before the new offset, and the receiver is kept.
C23_Witness ==
    /\ op = "spliced"
    /\ Len(ret.self) = 2
    /\ ret.self[1] # 0
    /\ ret.args = <<4, 3>>
    /\ ret.value = Some(<<ret.self[1], ret.self[2], 0, 0, 3>>)
    /\ arg = ret.self

\* C24: when nothing is selected (or the selection does not resolve to an
\* offset), get_items_bounds returns a first visible index equal to the previous
\* scroll offset clamped to [0, itemCount - 1], for every capacity and every
\* item heights.
C24_NoSelectionKeepsOffset ==
    (selected = None \/ ~Resolves(tree, selected[1]))
        => /\ op # "panic"
           /\ op = "returned"
                => ret.first = Min(offset, Cardinality(AddressesBelow(tree)) - 1)

\* A stale selection, a previous offset past the end and a last item taller
\* than the viewport: the window is empty and starts at the last offset.
C24_Witness ==
    /\ op = "returned"
    /\ selected # None
    /\ ~Resolves(tree, selected[1])
    /\ offset >= Cardinality(AddressesBelow(tree))
    /\ PreorderNodes(tree)[Cardinality(AddressesBelow(tree))].height > arg
    /\ ret.first = Cardinality(AddressesBelow(tree)) - 1
    /\ ret.last = ret.first

\* C25: the padding-adjusted target offset chosen by get_items_bounds (the
\* selection plus or minus the reduced padding, or the selection, or the clamped
\* scroll offset when nothing is selected) lies inside the returned window,
\* first <= target < last, whenever the target item is not taller than the
\* viewport capacity.
C25_TargetVisible ==
    /\ op \in {"forward", "hide_previous", "backward", "hide_next", "returned"}
          => /\ ret.target < Cardinality(AddressesBelow(tree))
             /\ ret.target = display_index(tree, selected, offset, arg)
    /\ (/\ op = "returned"
        /\ PreorderNodes(tree)[ret.target + 1].height <= arg)
          => /\ ret.first <= ret.target
             /\ ret.target < ret.last

\* The target is the selection moved back by the padding, before the items
\* that fit at the previous offset, and the window has moved back to hold it.
C25_Witness ==
    /\ op = "returned"
    /\ selected # None
    /\ Resolves(tree, selected[1])
    /\ ret.target < PreorderOffset(tree, selected[1])
    /\ ret.target < fit_window(tree, offset, arg).first
    /\ PreorderNodes(tree)[ret.target + 1].height <= arg
    /\ ret.first < Min(offset, Cardinality(AddressesBelow(tree)) - 1)
    /\ ret.first <= ret.target
    /\ ret.target < ret.last

\* The loop tests a call may make: the for loop at most n + 1, the padding
\* reduction at most scroll_padding + 1, each expansion with its shrink loop at
\* most 3n + 1, and the entries of the call, of the padding and of the
\* expansions.
MaxSteps(self) == 7 * len_descendants(self) + self.scroll_padding + 7

\* C26: get_items_bounds terminates for every non-empty tree, previous offset,
\* selection (valid, stale or none), scroll padding and capacity >= 1, for any
\* item heights >= 0 including items taller than the capacity: the
\* padding-reduction loop, the forward expansion loop and the backward
\* expansion loop, with their inner shrink loops, each finish after finitely
\* many steps.  Every state of the call is one of its loops or the return,
\* never a panic, and is reached within MaxSteps loop tests.
C26_Terminates ==
    /\ op \in {"new", "fit", "apply", "padding", "display", "forward", "hide_previous",
               "backward", "hide_next", "returned"}
    /\ op # "new" => ret.steps <= MaxSteps(tree)

\* A call that went through the padding reduction, the forward expansion with
\* its shrink loop and an item taller than the viewport has returned, with the
\* window the function computes.
C26_Witness ==
    /\ op = "returned"
    /\ ret.sel # None
    /\ ret.padding < tree.scroll_padding
    /\ ret.first > Min(offset, len_descendants(tree) - 1)
    /\ \E i \in 1..Len(tree.children) : tree.children[i].height > arg
    /\ \E i \in 1..Len(tree.children) : tree.children[i].height = 0
    /\ ret.first = get_items_bounds(tree, selected, offset, arg).first
    /\ ret.last = get_items_bounds(tree, selected, offset, arg).last

Max(a, b) == IF a >= b THEN a ELSE b

\* The largest padding p in 0..scroll_padding for which the items at offsets
\* max(0, s - p) .. min(n - 1, s + p) are together at most max_height tall,
\* 0 if there is none.
LargestPadding(self, s, max_height) ==
    LET fits == {p \in 0..self.scroll_padding :
                    HeightAround(self, s, p) <= max_height}
    IN  IF fits = {} THEN 0 ELSE CHOOSE p \in fits : \A q \in fits : q <= p

\* C27: for a selected offset s among n items,
\* apply_scroll_padding_to_selected_index uses the largest p in
\* [0, scroll_padding] such that the total height of the items at offsets
\* [max(0, s - p), min(n - 1, s + p)] is at most the capacity (p = 0 if none),
\* and returns min(s + p, n - 1) if that is >= the initial lastVisible, else
\* max(s - p, 0) if that is < firstVisible, else s; it never fails and never
\* returns an offset >= n.
C27_PaddedIndex ==
    (/\ op = "display"
     /\ selected # None
     /\ Resolves(tree, selected[1]))
        => LET n == Cardinality(AddressesBelow(tree))
               s == PreorderOffset(tree, selected[1])
               p == LargestPadding(tree, s, arg)
           IN  /\ ret.padding = p
               /\ ret.padded # None
               /\ ret.padded[1] < n
               /\ ret.padded[1] =
                      IF Min(s + p, n - 1) >= ret.last THEN Min(s + p, n - 1)
                      ELSE IF Max(s - p, 0) < ret.first THEN Max(s - p, 0)
                      ELSE s

\* The padding was reduced, but not to zero, and the padded offset lies before
\* the items that fit at the previous offset.
C27_Witness ==
    /\ op = "display"
    /\ selected # None
    /\ Resolves(tree, selected[1])
    /\ ret.padding > 0
    /\ ret.padding < tree.scroll_padding
    /\ ret.padded # None
    /\ ret.padded[1] < ret.first
    /\ ret.padded[1] = PreorderOffset(tree, selected[1]) - ret.padding

\* C28: after render_ref on a tree with at least one node and a non-empty area,
\* state.offset equals the firstVisible returned by get_items_bounds and is a
\* valid linear offset (< number of nodes), whatever the previous state.offset
\* was (including values past the end of a shrunk tree); exactly the nodes with
\* linear offsets in [firstVisible, lastVisible) are drawn.
C28_RenderStoresOffset ==
    (/\ op = "render_ref"
     /\ ~Rect_is_empty(arg.area)
     /\ AddressesBelow(tree) # {})
        => /\ ret.window # None
           /\ ret.drawn # None
           /\ LET w == ret.window[1]
                  d == ret.drawn[1]
              IN  /\ ~w.fault
                  /\ w.first = get_items_bounds(tree, selected, arg.offset,
                                                arg.area.height).first
                  /\ offset = w.first
                  /\ offset < Cardinality(AddressesBelow(tree))
                  /\ ~d.fault
                  /\ w.first <= w.last
                  /\ Len(d.items) = w.last - w.first
                  /\ \A k \in 1..Len(d.items) :
                        /\ d.items[k][1] = w.first + k - 1
                        /\ d.items[k][2][2] = PreorderNodes(tree)[w.first + k]

\* The tree was replaced by a shorter one: the previous offset is past its end,
\* and the render has brought the offset back to a node that it draws.
C28_Witness ==
    /\ op = "render_ref"
    /\ ~Rect_is_empty(arg.area)
    /\ AddressesBelow(tree) # {}
    /\ arg.offset >= Cardinality(AddressesBelow(tree))
    /\ offset = Cardinality(AddressesBelow(tree)) - 1
    /\ offset >= 1
    /\ ret.drawn # None
    /\ Len(ret.drawn[1].items) >= 1
    /\ ret.drawn[1].items[1][1] = offset

\* C29: with n single-line items, capacity c <= n, scroll padding p with
\* 2p + 1 <= c, previous offset 0 and the selection at the last offset n - 1,
\* get_items_bounds returns the window [n - c, n) and the new scroll offset is
\* n - c; in particular n = 10, c = 4, p = 1, selection 9 gives [6, 10) and
\* offset 6.
C29_ScrollToLast ==
    LET n == Len(tree.children)
    IN  (/\ op = "returned"
         /\ \A i \in 1..n : tree.children[i] = [name |-> i - 1, height |-> 1,
                                                children |-> <<>>]
         /\ arg <= n
         /\ 2 * tree.scroll_padding + 1 <= arg
         /\ offset = 0
         /\ selected = Some(new_at(n - 1)))
            => /\ ret.first = n - arg
               /\ ret.last = n
               /\ (n = 10 /\ arg = 4 /\ tree.scroll_padding = 1)
                      => ret.first = 6 /\ ret.last = 10

\* The example: ten single-line items, four rows, padding one, the last item
\* selected from the top of the list.
C29_Witness ==
    /\ op = "returned"
    /\ Len(tree.children) = 10
    /\ \A i \in 1..10 : tree.children[i].height = 1
    /\ arg = 4
    /\ tree.scroll_padding = 1
    /\ offset = 0
    /\ selected = Some(new_at(9))
    /\ ret.first = 6
    /\ ret.last = 10

\* C30: for any scroll padding (even one that cannot be honoured) and any item
\* heights, whenever the selected item's own height is at most the capacity the
\* window returned by get_items_bounds contains the selected offset
\* (first <= selected < last).
C30_SelectedVisible ==
    (/\ op = "returned"
     /\ selected # None
     /\ Resolves(tree, selected[1])
     /\ NodeAt(tree, selected[1]).height <= arg)
        => /\ ret.first <= PreorderOffset(tree, selected[1])
           /\ PreorderOffset(tree, selected[1]) < ret.last

\* The padding cannot be honoured: the items around the selection are taller
\* than the viewport even with a padding of one, and the selection is shown
\* after the window moved forward.
C30_Witness ==
    /\ op = "returned"
    /\ selected # None
    /\ Resolves(tree, selected[1])
    /\ NodeAt(tree, selected[1]).height <= arg
    /\ tree.scroll_padding >= 1
    /\ HeightAround(tree, PreorderOffset(tree, selected[1]), 1) > arg
    /\ ret.padding = 0
    /\ ret.first > Min(offset, Cardinality(AddressesBelow(tree)) - 1)
    /\ ret.first <= PreorderOffset(tree, selected[1])
    /\ PreorderOffset(tree, selected[1]) < ret.last

\* C31: the persisted scroll offset is stable across renders.  Rendering the
\* same tree twice in a row with the same area and no key event in between
\* leaves state.offset and state.selected after the second render equal to
\* their values after the first render, also when item heights are
\* inconsistent.
C31_RenderTwice ==
    [][(/\ op = "render_ref"
        /\ op' = "render_ref"
        /\ arg'.area = arg.area)
           => /\ offset' = offset
              /\ selected' = selected]_vars

\* A render of items of different heights that found the selection and the
\* offset an earlier render left, the window scrolled down, and left them.
C31_Witness ==
    /\ op = "render_ref"
    /\ ~Rect_is_empty(arg.area)
    /\ \E i, j \in 1..Len(PreorderNodes(tree)) :
          PreorderNodes(tree)[i].height # PreorderNodes(tree)[j].height
    /\ selected # None
    /\ arg.selected = selected
    /\ arg.offset = offset
    /\ offset >= 1
    /\ ret.window # None
    /\ ret.window[1].first = offset

\* C32: window bookkeeping invariant.  At every step of get_items_bounds,
\* 0 <= first_visible_index <= last_visible_index <= itemCount and
\* height_from_offset equals the sum of the heights of the items in
\* [first_visible_index, last_visible_index); consequently every index passed
\* to get_descendant_infix(..).unwrap() exists, no index decrement underflows
\* (the call never panics), and the returned window's total height is at most
\* the capacity.
C32_WindowBookkeeping ==
    /\ op # "panic"
    /\ op # "new" =>
          /\ 0 <= ret.first
          /\ ret.first <= ret.last
          /\ ret.last <= Cardinality(AddressesBelow(tree))
          /\ ret.height = CombinedHeight(tree, ret.first, ret.last - 1)
    /\ op = "forward" /\ ret.target >= ret.last =>
          ret.last < Cardinality(AddressesBelow(tree))
    /\ op = "hide_previous" /\ ret.height > arg =>
          ret.first < Cardinality(AddressesBelow(tree))
    /\ op = "backward" /\ ret.target < ret.first => ret.first >= 1
    /\ op = "hide_next" /\ ret.height > arg => ret.last >= 1
    /\ op = "returned" => ret.height <= arg

\* A call returned a full window of items of different heights after the
\* backward expansion brought an item in and its inner loop hid trailing items.
C32_Witness ==
    /\ op = "returned"
    /\ ret.first < Min(offset, Cardinality(AddressesBelow(tree)) - 1)
    /\ ret.last < Cardinality(AddressesBelow(tree))
    /\ ret.last > ret.first
    /\ ret.height = arg
    /\ ret.height = CombinedHeight(tree, ret.first, ret.last - 1)
    /\ \E i, j \in 1..Len(tree.children) :
          tree.children[i].height > tree.children[j].height

\* C37: navigation from no selection.  When selected is None, select_up and
\* select_parent set it to the first root-level node [0] and select_down sets
\* it to the pre-order-last node of the tree; on a childless tree all three
\* leave it None.  The resulting selection, if Some, resolves to a node of the
\* tree.
C37_FromNoSelection ==
    (op \in {"select_up", "select_down", "select_parent"} /\ arg.selected = None)
        => /\ is_empty(tree) => selected = None
           /\ ~is_empty(tree) /\ op \in {"select_up", "select_parent"}
                 => selected = Some(<<0>>)
           /\ ~is_empty(tree) /\ op = "select_down"
                 => /\ selected # None
                    /\ Resolves(tree, selected[1])
                    /\ PreorderOffset(tree, selected[1])
                          = Cardinality(AddressesBelow(tree)) - 1
           /\ selected # None => Resolves(tree, selected[1])

\* select_down from no selection reached a nested node that is the last in
\* pre-order, in a tree with several root-level nodes.
C37_Witness ==
    /\ op = "select_down"
    /\ arg.selected = None
    /\ Len(tree.children) >= 2
    /\ selected # None
    /\ Len(selected[1]) >= 2
    /\ PreorderOffset(tree, selected[1]) = Cardinality(AddressesBelow(tree)) - 1

\* C36: render frame conditions.  render_ref with an empty tree area leaves
\* state.selected and state.offset unchanged (even when the tree is empty);
\* render_ref of a childless tree into a non-empty area sets state.selected to
\* None and leaves state.offset unchanged.
C36_RenderFrame ==
    op = "render_ref" =>
        /\ (arg.area.width = 0 \/ arg.area.height = 0)
              => /\ selected = arg.selected
                 /\ offset = arg.offset
        /\ (arg.area.width # 0 /\ arg.area.height # 0 /\ tree.children = <<>>)
              => /\ selected = None
                 /\ offset = arg.offset

\* A childless tree rendered into an empty area with a selection and a scroll
\* offset left by an earlier tree: both are still there.
C36_Witness ==
    /\ op = "render_ref"
    /\ arg.area.width = 0
    /\ tree.children = <<>>
    /\ arg.selected # None
    /\ arg.offset > 0
    /\ selected = arg.selected
    /\ offset = arg.offset

\* The depth of a tree: the length of the longest address in it.
TreeDepth(self) ==
    IF AddressesBelow(self) = {} THEN 0
    ELSE CHOOSE d \in 1..Cardinality(AddressesBelow(self)) :
            /\ \E a \in AddressesBelow(self) : Len(a) = d
            /\ \A a \in AddressesBelow(self) : Len(a) <= d

\* C38 as stated: at every step of each of the three traversals the number of
\* work items held on the explicit stack is bounded by the depth of the tree.
C38_StackWithinDepth ==
    op \in {"TreeIter", "TreeIterWithDepth", "TreeIterWithIndex"}
        => Len(ret) <= TreeDepth(tree)

\* C38 amended: at every step of each of the three traversals the number of
\* work items held on the explicit stack is at most the number of nodes of the
\* tree not yet yielded (so at most the node count); it is within the depth of
\* the tree when no node, the root included, has more than one child.
C38_StackWithinRemaining ==
    op \in {"TreeIter", "TreeIterWithDepth", "TreeIterWithIndex"}
        => /\ Len(ret) <= Cardinality(AddressesBelow(tree)) - arg
           /\ (/\ Len(tree.children) <= 1
               /\ \A a \in AddressesBelow(tree) :
                     Len(NodeAt(tree, a).children) <= 1)
                 => Len(ret) <= TreeDepth(tree)

\* A traversal under way holds more work items than the tree is deep: the
\* siblings still to visit are on the stack together.
C38_Witness ==
    /\ op = "TreeIter"
    /\ arg >= 1
    /\ Len(ret) > TreeDepth(tree)
    /\ Len(ret) = Cardinality(AddressesBelow(tree)) - arg

\* C35: toggle_deltas changes state only on success.  For an out-of-range
\* commit index it returns Ok and changes nothing; if the diff has not been
\* loaded and the commit does not have exactly one parent (or loading the diff
\* fails) it returns an error and leaves is_collapsed, deltas and diff
\* unchanged; otherwise it flips is_collapsed exactly once, so two successful
\* toggles restore the original collapsed flag, and the diff and deltas are
\* computed at most once per commit.
C35_ToggleDeltas ==
    [][LET i == arg'.commit_index + 1
           n == Len(tree.children)
       IN  /\ i > n => ret' = "Ok" /\ tree' = tree
           /\ ret' = "Err" => /\ tree' = tree
                              /\ i <= n
                              /\ tree.children[i].diff = None
           /\ (i <= n /\ tree.children[i].diff = None
                      /\ tree.children[i].commit.parent_count # 1) => ret' = "Err"
           /\ (i <= n /\ ret' = "Ok") =>
                 /\ tree'.children[i].is_collapsed = ~tree.children[i].is_collapsed
                 /\ tree'.children[i].diff # None
                 /\ tree'.children[i].children
                       = Diff_deltas(tree.children[i].commit)
                 /\ \A k \in 1..n : k # i => tree'.children[k] = tree.children[k]
           /\ \A k \in 1..n : tree.children[k].diff # None =>
                 /\ tree'.children[k].diff = tree.children[k].diff
                 /\ tree'.children[k].children = tree.children[k].children
           /\ (/\ op = "toggle_deltas"
               /\ arg.commit_index = arg'.commit_index
               /\ i <= n
               /\ ret = "Ok"
               /\ ret' = "Ok") =>
                 tree'.children[i].is_collapsed = arg.stack.children[i].is_collapsed
      ]_vars

\* A commit was expanded and collapsed again: its diff is loaded, its deltas
\* are kept and it is collapsed as it was loaded.
C35_Witness ==
    /\ op = "toggle_deltas"
    /\ ret = "Ok"
    /\ arg.commit_index < Len(tree.children)
    /\ arg.stack.children[arg.commit_index + 1].diff # None
    /\ ~arg.stack.children[arg.commit_index + 1].is_collapsed
    /\ tree.children[arg.commit_index + 1].is_collapsed
    /\ Len(tree.children[arg.commit_index + 1].children) = MaxFiles

\* The tree the controller renders: the visible commits and the deltas of the
\* expanded commits only.
Rendered == Tree_new(tree.children)

\* C33: in the stack controller each Down key press moves the selection to the
\* pre-order successor in the tree that is actually rendered, so that repeated
\* Down presses starting from the first commit eventually reach the last
\* rendered node; the selection is never bounced back by the render-time repair
\* to the node it came from.  Stated for one press: after a draw that handled a
\* Down press with a rendered node selected that is not the last one, the
\* selection is the next rendered node.
C33_DownMovesToSuccessor ==
    (/\ op = "front"
     /\ ret.message = Some(Message_Terminal(Key("Down", FALSE, TRUE)))
     /\ ~Rect_is_empty(arg.area)
     /\ ret.before # None
     /\ Resolves(Rendered, ret.before[1])
     /\ PreorderOffset(Rendered, ret.before[1])
           < Cardinality(AddressesBelow(Rendered)) - 1)
        => selected = Some(AddressAt(Rendered,
                          PreorderOffset(Rendered, ret.before[1]) + 1))

\* A key message that requests an exit: Ctrl+C, Ctrl+Q or Ctrl+X (press or
\* release), or a press of 'q'.
RequestsExit(message) ==
    /\ message.kind = "Terminal"
    /\ \/ message.event.ctrl /\ message.event.code \in {"c", "q", "x"}
       \/ message.event.press /\ message.event.code = "q"

\* One step of main, as the exit protocol allows it.
ExitProtocolStep ==
    /\ (op = "draw") =>
         (/\ ret.queue # <<>>
          /\ ret'.message = Some(Head(ret.queue))
          /\ IF RequestsExit(Head(ret.queue))
             THEN /\ ret'.queue = <<Message_Exit>>
                  /\ op' \in {"front", "restore"}
                  /\ (op' = "front") => (ret'.result = "Ok")
             ELSE ret'.queue = Tail(ret.queue))
    /\ (op = "front" /\ ret.queue # <<>> /\ Head(ret.queue) = Message_Exit) =>
         (/\ op' = "restore"
          /\ ret' = ret
          /\ UNCHANGED <<tree, selected, offset>>)
    /\ (op = "front" /\ ret'.queue # ret.queue) =>
         (/\ ret.queue = <<>>
          /\ \E event \in Events : ret'.queue = <<Message_Terminal(event)>>
          /\ op' = "draw")
    /\ (op \in {"restore", "returned"}) => (ret'.queue = ret.queue)

\* C34: controller exit protocol.  Once an exit is requested (a Ctrl+C/Q/X key
\* message, or a plain 'q' key press), exit() discards all pending messages and
\* leaves exactly [Exit] in the queue, and the main loop breaks at the end of
\* that same iteration without reading another terminal event and without
\* processing any further message; otherwise a terminal event is read only
\* when the queue is empty and each queued message is popped exactly once, in
\* FIFO order, one per draw.
C34_ExitProtocol == [][ExitProtocolStep]_vars

\* main returned Ok after a press of 'q' on a loaded stack: the queue holds
\* Exit alone and nothing was read after the draw that handled the key.
C34_Witness ==
    /\ op = "returned"
    /\ ret.result = "Ok"
    /\ ret.queue = <<Message_Exit>>
    /\ ret.message = Some(Message_Terminal(Key("q", FALSE, TRUE)))
    /\ Len(tree.children) = MaxCommits

\* C39: terminal state is a scoped resource.  On every exit path of the
\* application after ratatui::init() has run (normal quit, or an error
\* returned by drawing, event reading, loading or a key action),
\* ratatui::restore() is called before main returns: main never returns with
\* the terminal still in raw mode.
C39_TerminalRestored == op = "returned" => ret.terminal # "raw"

====
